---- MODULE Spec2Model ----
(***************************************************************************)
(* Model of ConfigPanel (src/src/main.ts): the raw value store, the value  *)
(* cache with its dirty flag, the source loaders, the validated write      *)
(* path, the websocket change channel and the events it emits.             *)
(*                                                                         *)
(* JavaScript runs every handler to completion, so each public method and  *)
(* each socket callback is one action.                                     *)
(***************************************************************************)
EXTENDS Integers, Sequences, FiniteSets, TLC

VARIABLES
    defaults,         \* configMap[c][f].default as passed to the constructor
    rawInputMap,      \* this.rawInputMap : category -> field -> raw value
    heap,             \* the objects reachable from this.valueMap or held by the host
    isValueMapDirty,  \* this.isValueMapDirty
    errorListener,    \* TRUE once the host has called on('error', ...)
    server,           \* this.server / this.wss : "none" | "binding" | "unbinding"
                      \*   (closed while binding) | "listening" | "closed"
    wssPing,          \* this.wssPing : "none" | "active" | "cleared"
    isAlive,          \* socket -> ws.isAlive
    waiters,          \* number of waitForClose calls awaiting 'exit'
    stayOpen,         \* config.stayOpen captured by startWss
    aborted,          \* this.abortCtrl.signal.aborted
    clients,          \* socket -> "none" | "open" | "closing" (in wss.clients, not OPEN)
    hostRefs,         \* category containers the host obtained from `values`
    caught,           \* the validation error the host caught from a read and is
                      \*   repairing: the fields it names that are still to be
                      \*   written, and what has been written since
    displayMap,       \* this.displayMap : category -> html shown above it ("" = none)
    loop,             \* the event loop seen step by step: messages received and not
                      \*   yet handled, handlers that have begun, what they did so far
    out,              \* what the last handler emitted and broadcast, in order
    last              \* the last call: operation, arguments, outcome

vars == <<defaults, caught, rawInputMap, heap, isValueMapDirty, errorListener, server, wssPing,
          isAlive, waiters, stayOpen, aborted, clients, hostRefs, displayMap, loop, out, last>>

----------------------------------------------------------------------------
(* Bounds of the model.                                                    *)

MaxClients == 2
MaxRefs == 1
MaxWaiters == 2
MaxEdits == 2

Sockets == 1..MaxClients

----------------------------------------------------------------------------
(* JavaScript values. Every value is a record of one shape so that values  *)
(* of different JavaScript types can be compared.                          *)

Str(x) == [t |-> "string", s |-> x, n |-> 0]
Num(k) == [t |-> "number", s |-> "", n |-> k]
NaN == [t |-> "number", s |-> "NaN", n |-> 0]
Bool(b) == [t |-> "boolean", s |-> "", n |-> IF b THEN 1 ELSE 0]
Undefined == [t |-> "undefined", s |-> "", n |-> 0]
EmptyObj == [t |-> "object", s |-> "", n |-> 0]
Null == [t |-> "null", s |-> "", n |-> 0]

\* The decimal literals the model's inputs use.
NumLit == [x \in {"42", "-1", "0", "1"} |->
             CASE x = "42" -> 42 [] x = "-1" -> 0 - 1 [] x = "0" -> 0 [] x = "1" -> 1]

\* Truthiness, as in `a || b` and `if (a)`.
Falsy(v) ==
    \/ v.t \in {"undefined", "null"}
    \/ v.t = "string" /\ v.s = ""
    \/ v.t = "number" /\ (v.s = "NaN" \/ v.n = 0)
    \/ v.t = "boolean" /\ v.n = 0

\* `${v}` : template-literal conversion to a string.
ToStr(v) ==
    CASE v.t = "string" -> v.s
      [] v.t = "number" ->
            IF v.s = "NaN" THEN "NaN"
            ELSE IF \E x \in DOMAIN NumLit : NumLit[x] = v.n
                 THEN CHOOSE x \in DOMAIN NumLit : NumLit[x] = v.n
                 ELSE "number"
      [] v.t = "boolean" -> IF v.n = 1 THEN "true" ELSE "false"
      [] v.t = "undefined" -> "undefined"
      [] v.t = "null" -> "null"
      [] OTHER -> "[object Object]"

\* Number(v) : what z.coerce.number() applies before validating.
ToNumber(v) ==
    CASE v.t = "number" -> v
      [] v.t = "string" ->
            IF v.s \in DOMAIN NumLit THEN Num(NumLit[v.s])
            ELSE IF v.s = "" THEN Num(0) ELSE NaN
      [] v.t = "boolean" -> Num(v.n)
      [] v.t = "null" -> Num(0)
      [] OTHER -> NaN

----------------------------------------------------------------------------
(* Type descriptors (zod schemas) and their parse.                         *)

Ok(v) == [ok |-> TRUE, value |-> v, message |-> ""]
Fail(m) == [ok |-> FALSE, value |-> Undefined, message |-> m]

\* z.enum([...]).default(d)
EnumType(options, d) ==
    [zod |-> "enum", options |-> options, defaultValue |-> d, min |-> 0, max |-> 0]
\* z.coerce.number().min(lo).max(hi)
NumberType(lo, hi) ==
    [zod |-> "number", options |-> {}, defaultValue |-> Undefined, min |-> lo, max |-> hi]
\* z.stringbool()
StringBoolType ==
    [zod |-> "stringbool", options |-> {}, defaultValue |-> Undefined, min |-> 0, max |-> 0]

StringBoolTruthy == {"true", "1", "yes", "on", "y", "enabled"}
StringBoolFalsy == {"false", "0", "no", "off", "n", "disabled"}

\* type.parse(raw): the parsed value, or the issue message of the ZodError.
Parse(type, raw) ==
    CASE type.zod = "enum" ->
            IF raw.t = "undefined" THEN Ok(type.defaultValue)
            ELSE IF raw.t = "string" /\ raw.s \in type.options THEN Ok(raw)
            ELSE Fail("Invalid option")
      [] type.zod = "number" ->
            LET k == ToNumber(raw) IN
            IF k.s = "NaN" THEN Fail("Invalid input: expected number, received NaN")
            ELSE IF k.n < type.min THEN Fail("Too small")
            ELSE IF k.n > type.max THEN Fail("Too big")
            ELSE Ok(k)
      [] type.zod = "stringbool" ->
            IF raw.t # "string" THEN Fail("Invalid input: expected string")
            ELSE IF raw.s \in StringBoolTruthy THEN Ok(Bool(TRUE))
            ELSE IF raw.s \in StringBoolFalsy THEN Ok(Bool(FALSE))
            ELSE Fail("Invalid input: expected boolean as string")

----------------------------------------------------------------------------
(* The schema the panel is built from: two categories, three fields.       *)
(*   fish.kind  : enum Salmon|Tuna|Trout, default Tuna, envName FISH_KIND  *)
(*   fish.count : coerced number 0..100, no default, argName count         *)
(*   pond.kind  : stringbool, default 'true', argName pond-kind, onInteract*)

Cats == <<"fish", "pond">>
CatSet == {Cats[i] : i \in 1..Len(Cats)}

Keys(c) == IF c = "fish" THEN <<"kind", "count">> ELSE <<"kind">>
KeySet(c) == {Keys(c)[i] : i \in 1..Len(Keys(c))}

\* A ConfigDefinition; `keys` are the properties the JavaScript object has
\* once the constructor has filled in displayName.
configMap ==
    [c \in CatSet |->
       IF c = "fish"
       THEN [f \in KeySet(c) |->
               IF f = "kind"
               THEN [type |-> EnumType({"Salmon", "Tuna", "Trout"}, Str("Tuna")),
                     default |-> Undefined, envName |-> "FISH_KIND", argName |-> "",
                     onInteract |-> FALSE,
                     keys |-> {"type", "envName", "displayName"}]
               ELSE [type |-> NumberType(0, 100),
                     default |-> Undefined, envName |-> "", argName |-> "count",
                     onInteract |-> FALSE,
                     keys |-> {"type", "argName", "displayName"}]]
       ELSE [f \in KeySet(c) |->
               [type |-> StringBoolType,
                default |-> Str("true"), envName |-> "", argName |-> "pond-kind",
                onInteract |-> TRUE,
                keys |-> {"type", "default", "argName", "onInteract", "displayName"}]]]

\* allCatsAndVals: every field path, categories then fields in insertion order.
RECURSIVE PathsFrom(_, _)
PathsFrom(i, j) ==
    IF i > Len(Cats) THEN <<>>
    ELSE IF j > Len(Keys(Cats[i])) THEN PathsFrom(i + 1, 1)
    ELSE << <<Cats[i], Keys(Cats[i])[j]>> >> \o PathsFrom(i, j + 1)

AllPaths == PathsFrom(1, 1)
PathSet == {AllPaths[i] : i \in 1..Len(AllPaths)}

\* path.join('.')
RECURSIVE JoinDot(_)
JoinDot(path) ==
    IF Len(path) = 0 THEN ""
    ELSE IF Len(path) = 1 THEN path[1]
    ELSE path[1] \o "." \o JoinDot(Tail(path))

\* pathToElementId: base64 of the JSON array, a reversible encoding of the path.
RECURSIVE JoinComma(_)
JoinComma(path) ==
    IF Len(path) = 0 THEN ""
    ELSE IF Len(path) = 1 THEN path[1]
    ELSE path[1] \o "," \o JoinComma(Tail(path))

pathToElementId(path) == "b64[" \o JoinComma(path) \o "]"

----------------------------------------------------------------------------
(* Errors.                                                                 *)

NoError == [name |-> "", message |-> "", issues |-> <<>>]
MkError(name, message) == [name |-> name, message |-> message, issues |-> <<>>]
ZodError(issues) == [name |-> "ZodError", message |-> "", issues |-> issues]

----------------------------------------------------------------------------
(* The stores. A store is [raw, heap, dirty]; object 0 of the heap is      *)
(* this.valueMap, whose properties refer to the category containers.       *)

Root == 0
ObjIds == 0..(Len(Cats) + MaxRefs)
NoObject == <<>>

Store(raw, hp, dirty) == [raw |-> raw, heap |-> hp, dirty |-> dirty]

\* The container this.valueMap[c] and the cached value of a field.
Container(hp, c) == hp[hp[Root][c]]
Cached(hp, path) == Container(hp, path[1])[path[2]]

Outcome(threw, err, parsed, st) ==
    [threw |-> threw, err |-> err, parsed |-> parsed, st |-> st]

\* Names every object has through Object.prototype: `part in node` is true
\* for them although the schema does not declare them.
Inherited == {"constructor"}

\* getConfigDefinition: walks this.configMap along the path; the node it ends
\* on is returned as if it were a ConfigDefinition, whatever it is. The paths
\* of the model have at most three segments, and their first segment is not
\* an inherited name.
getConfigDefinition(path) ==
    LET bad == [threw |-> TRUE, kind |-> "",
                err |-> MkError("Error", "Invalid config path: " \o JoinDot(path))]
        node(k) == [threw |-> FALSE, kind |-> k, err |-> NoError]
    IN  IF Len(path) = 0 THEN node("root")
        ELSE IF path[1] \notin CatSet THEN bad
        ELSE IF Len(path) = 1 THEN node("category")
        ELSE IF Len(path) = 2 /\ path[2] \in Inherited THEN node("inherited")
        ELSE IF path[2] \notin KeySet(path[1]) THEN bad
        ELSE IF Len(path) = 2 THEN node("definition")
        ELSE IF path[3] \notin configMap[path[1]][path[2]].keys THEN bad
        ELSE node("property")

\* setRawValue writing an accepted value into a copy of the category container
\* and putting the copy into the value tree.
setRawValue_CopyOnWrite(st, path, rawValue, node) ==
    LET c == path[1]
        f == path[2]
        walkedRaw == IF Len(path) >= 3
                     THEN [st.raw EXCEPT ![c][f] = IF Falsy(@) THEN EmptyObj ELSE @]
                     ELSE st.raw
        walkedHeap == IF Len(path) >= 3
                      THEN [st.heap EXCEPT ![st.heap[Root][c]][f] =
                                               IF Falsy(@) THEN EmptyObj ELSE @]
                      ELSE st.heap
        walked == Store(walkedRaw, walkedHeap, st.dirty)
        copy == CHOOSE o \in ObjIds : o # Root /\ \A d \in CatSet : st.heap[Root][d] # o
    IN  IF node = "none"
        THEN Outcome(FALSE, NoError, Undefined,
                     Store([walkedRaw EXCEPT ![c][f] = rawValue], walkedHeap, TRUE))
        ELSE IF node # "definition"
        THEN Outcome(TRUE, MkError("TypeError", "Cannot read properties of undefined (reading 'parse')"),
                     Undefined, walked)
        ELSE LET r == Parse(configMap[c][f].type, rawValue) IN
             IF r.ok
             THEN Outcome(FALSE, NoError, r.value,
                          Store([walkedRaw EXCEPT ![c][f] = rawValue],
                                [walkedHeap EXCEPT
                                    ![copy] = [walkedHeap[walkedHeap[Root][c]]
                                                  EXCEPT ![f] = r.value],
                                    ![Root][c] = copy],
                                st.dirty))
             ELSE Outcome(TRUE,
                          MkError("Error", "Invalid value for " \o JoinDot(path) \o ": "
                                           \o r.message \o " (" \o ToStr(rawValue) \o ")"),
                          Undefined, walked)

\* setRawValue storing the raw value before it validates it: a rejected value
\* stays in the raw store.
setRawValue_StoreRawOnFailure(st, path, rawValue, node) ==
    LET c == path[1]
        f == path[2]
        walkedRaw == IF Len(path) >= 3
                     THEN [st.raw EXCEPT ![c][f] = IF Falsy(@) THEN EmptyObj ELSE @]
                     ELSE st.raw
        walkedHeap == IF Len(path) >= 3
                      THEN [st.heap EXCEPT ![st.heap[Root][c]][f] =
                                               IF Falsy(@) THEN EmptyObj ELSE @]
                      ELSE st.heap
        walked == Store(walkedRaw, walkedHeap, st.dirty)
    IN  IF node = "none"
        THEN Outcome(FALSE, NoError, Undefined,
                     Store([walkedRaw EXCEPT ![c][f] = rawValue], walkedHeap, TRUE))
        ELSE IF node # "definition"
        THEN Outcome(TRUE, MkError("TypeError", "Cannot read properties of undefined (reading 'parse')"),
                     Undefined, walked)
        ELSE LET r == Parse(configMap[c][f].type, rawValue) IN
             IF r.ok
             THEN Outcome(FALSE, NoError, r.value,
                          Store([walkedRaw EXCEPT ![c][f] = rawValue],
                                [walkedHeap EXCEPT ![walkedHeap[Root][c]][f] = r.value],
                                st.dirty))
             ELSE Outcome(TRUE,
                          MkError("Error", "Invalid value for " \o JoinDot(path) \o ": "
                                           \o r.message \o " (" \o ToStr(rawValue) \o ")"),
                          Undefined,
                          Store([walkedRaw EXCEPT ![c][f] = rawValue], walkedHeap, st.dirty))

\* setRawValue as it would be if a validated write updated the cache only and
\* left the raw value as it was.
setRawValue_CacheOnly(st, path, rawValue, node) ==
    LET c == path[1]
        f == path[2]
        r == Parse(configMap[c][f].type, rawValue)
    IN  IF node = "none"
        THEN Outcome(FALSE, NoError, Undefined,
                     Store([st.raw EXCEPT ![c][f] = rawValue], st.heap, TRUE))
        ELSE IF node # "definition"
        THEN Outcome(TRUE, MkError("TypeError",
                                   "Cannot read properties of undefined (reading 'parse')"),
                     Undefined, st)
        ELSE IF r.ok
        THEN Outcome(FALSE, NoError, r.value,
                     Store(st.raw, [st.heap EXCEPT ![st.heap[Root][c]][f] = r.value],
                           st.dirty))
        ELSE Outcome(TRUE,
                     MkError("Error", "Invalid value for " \o JoinDot(path) \o ": "
                                      \o r.message \o " (" \o ToStr(rawValue) \o ")"),
                     Undefined, st)

\* setRawValue(path, rawValue, defConfig?). `node` is what the caller passes as
\* defConfig: "none" when omitted, else the kind of node getConfigDefinition
\* returned. The loop over path[0..n-2] creates or replaces every falsy
\* intermediate node in both maps before anything is validated.
setRawValue(st, path, rawValue, node) ==
    LET c == path[1]
        f == path[2]
        \* for-loop of lines 764-768; a category node always exists (the
        \* constructor made it), a field node is walked only by a longer path
        walkedRaw == IF Len(path) >= 3
                     THEN [st.raw EXCEPT ![c][f] = IF Falsy(@) THEN EmptyObj ELSE @]
                     ELSE st.raw
        walkedHeap == IF Len(path) >= 3
                      THEN [st.heap EXCEPT ![st.heap[Root][c]][f] =
                                               IF Falsy(@) THEN EmptyObj ELSE @]
                      ELSE st.heap
        walked == Store(walkedRaw, walkedHeap, st.dirty)
    IN  IF node = "none"
        THEN \* no validation: mark dirty, write the raw value
             Outcome(FALSE, NoError, Undefined,
                     Store([walkedRaw EXCEPT ![c][f] = rawValue], walkedHeap, TRUE))
        ELSE IF node # "definition"
        THEN \* defConfig.type is undefined: defConfig.type.parse throws a TypeError
             Outcome(TRUE, MkError("TypeError", "Cannot read properties of undefined (reading 'parse')"),
                     Undefined, walked)
        ELSE LET r == Parse(configMap[c][f].type, rawValue) IN
             IF r.ok
             THEN Outcome(FALSE, NoError, r.value,
                          Store([walkedRaw EXCEPT ![c][f] = rawValue],
                                [walkedHeap EXCEPT ![walkedHeap[Root][c]][f] = r.value],
                                st.dirty))
             ELSE Outcome(TRUE,
                          MkError("Error", "Invalid value for " \o JoinDot(path) \o ": "
                                           \o r.message \o " (" \o ToStr(rawValue) \o ")"),
                          Undefined, walked)

\* A fail-fast parse: only the first invalid field is reported.
Issues_FirstOnly(raw, i) ==
    LET bad == {j \in i..Len(AllPaths) :
                   ~Parse(configMap[AllPaths[j][1]][AllPaths[j][2]].type,
                          raw[AllPaths[j][1]][AllPaths[j][2]]).ok}
        first == CHOOSE j \in bad : \A k \in bad : j <= k
    IN  IF bad = {} THEN <<>>
        ELSE <<[path |-> AllPaths[first],
                message |-> Parse(configMap[AllPaths[first][1]][AllPaths[first][2]].type,
                                  raw[AllPaths[first][1]][AllPaths[first][2]]).message]>>

\* The issues zodSchema.parse(rawInputMap) reports: one per invalid field, in
\* schema order; zod validates every property of every category object.
RECURSIVE Issues(_, _)
Issues(raw, i) ==
    IF i > Len(AllPaths) THEN <<>>
    ELSE LET p == AllPaths[i]
             r == Parse(configMap[p[1]][p[2]].type, raw[p[1]][p[2]])
         IN  (IF r.ok THEN <<>> ELSE <<[path |-> p, message |-> r.message]>>)
             \o Issues(raw, i + 1)

\* The object zodSchema.parse returns for one category.
ParsedCategory(raw, c) ==
    [f \in KeySet(c) |-> Parse(configMap[c][f].type, raw[c][f]).value]

\* The ids the new category containers get: the lowest ones that neither the
\* root nor a reference held by the host occupies.
RECURSIVE FreshIds(_, _, _)
FreshIds(used, i, k) ==
    IF k = 0 THEN <<>>
    ELSE IF i \in used THEN FreshIds(used, i + 1, k)
    ELSE <<i>> \o FreshIds(used, i + 1, k - 1)

\* Slots no longer reachable from the root or from the host are cleared.
Collect(hp, refs) ==
    LET live == {Root} \cup {hp[Root][c] : c \in CatSet} \cup refs
    IN  [o \in ObjIds |-> IF o \in live THEN hp[o] ELSE NoObject]

\* get values() as it would be if it wrote the parsed categories into the
\* containers the value tree already holds.
values_KeepsContainers(st, refs) ==
    IF ~st.dirty THEN Outcome(FALSE, NoError, Undefined, st)
    ELSE LET issues == Issues(st.raw, 1) IN
         IF Len(issues) > 0 THEN Outcome(TRUE, ZodError(issues), Undefined, st)
         ELSE Outcome(FALSE, NoError, Undefined,
                      Store(st.raw,
                            [o \in ObjIds |->
                                IF \E c \in CatSet : st.heap[Root][c] = o
                                THEN ParsedCategory(st.raw,
                                        CHOOSE c \in CatSet : st.heap[Root][c] = o)
                                ELSE st.heap[o]],
                            FALSE))

\* get values(): when dirty, parse the whole raw map and Object.assign the
\* result onto this.valueMap (every category property now refers to a new
\* object), then clear the flag; a failed parse throws before either.
values(st, refs) ==
    IF ~st.dirty THEN Outcome(FALSE, NoError, Undefined, st)
    ELSE LET issues == Issues(st.raw, 1) IN
         IF Len(issues) > 0 THEN Outcome(TRUE, ZodError(issues), Undefined, st)
         ELSE LET ids == FreshIds({Root} \cup refs, 0, Len(Cats))
                  idOf(c) == ids[CHOOSE i \in 1..Len(Cats) : Cats[i] = c]
                  assigned ==
                      [o \in ObjIds |->
                          IF o = Root THEN [c \in CatSet |-> idOf(c)]
                          ELSE IF \E c \in CatSet : idOf(c) = o
                          THEN ParsedCategory(st.raw, CHOOSE c \in CatSet : idOf(c) = o)
                          ELSE st.heap[o]]
              IN  Outcome(FALSE, NoError, Undefined,
                          Store(st.raw, Collect(assigned, refs), FALSE))

----------------------------------------------------------------------------
(* The source loaders.                                                     *)

\* String.prototype.toLowerCase on the names the schema uses.
toLowerCase(s) == IF s = "FISH_KIND" THEN "fish_kind" ELSE s

\* (conf.envName || `${prefix}${confCat}_${confKey}`).toLowerCase(), prefix ''
envKey(path) ==
    LET conf == configMap[path[1]][path[2]]
    IN  toLowerCase(IF conf.envName # "" THEN conf.envName
                    ELSE path[1] \o "_" \o path[2])

\* fromEnvironment: lcEnv is process.env with lower-cased keys and string values.
RECURSIVE fromEnvironmentFrom(_, _, _)
fromEnvironmentFrom(st, lcEnv, i) ==
    IF i > Len(AllPaths) THEN st
    ELSE LET p == AllPaths[i]
             next == IF envKey(p) \in DOMAIN lcEnv
                     THEN setRawValue(st, p, Str(lcEnv[envKey(p)]), "none").st
                     ELSE st
         IN  fromEnvironmentFrom(next, lcEnv, i + 1)

fromEnvironment(st, lcEnv) == Outcome(FALSE, NoError, Undefined,
                                      fromEnvironmentFrom(st, lcEnv, 1))

\* fromJSON: a missing file is ignored (ignoreMissing defaults to true);
\* otherwise Object.assign(this.rawInputMap, obj) replaces the whole category
\* object of every category the file names. A field the file's category object
\* does not hold reads as undefined afterwards.
NoFile == [exists |-> FALSE, obj |-> <<>>]
File(obj) == [exists |-> TRUE, obj |-> obj]

\* fromJSON that does not mark the cache dirty.
fromJSON_KeepsCacheClean(st, file) ==
    IF ~file.exists THEN Outcome(FALSE, NoError, Undefined, st)
    ELSE Outcome(FALSE, NoError, Undefined,
           Store([c \in CatSet |->
                    IF c \in DOMAIN file.obj
                    THEN [f \in KeySet(c) |->
                            IF f \in DOMAIN file.obj[c] THEN file.obj[c][f]
                            ELSE Undefined]
                    ELSE st.raw[c]],
                 st.heap, st.dirty))

fromJSON(st, file) ==
    IF ~file.exists THEN Outcome(FALSE, NoError, Undefined, st)
    ELSE Outcome(FALSE, NoError, Undefined,
           Store([c \in CatSet |->
                    IF c \in DOMAIN file.obj
                    THEN [f \in KeySet(c) |->
                            IF f \in DOMAIN file.obj[c] THEN file.obj[c][f]
                            ELSE Undefined]
                    ELSE st.raw[c]],
                 st.heap, TRUE))

\* JSON.parse(JSON.stringify(v)) of a value: NaN is written as null, the
\* other values of the model come back as they were.
JsonOf(v) == IF v = NaN THEN Null ELSE v

\* toJSON: JSON.stringify(this.rawInputMap) leaves out the properties whose
\* value is undefined.
toJSON(st) ==
    File([c \in CatSet |->
            [f \in {k \in KeySet(c) : st.raw[c][k] # Undefined} |-> JsonOf(st.raw[c][f])]])

\* The fields that get a setter in fromArgs: those with an argName.
HasArg(p) == configMap[p[1]][p[2]].argName # ""

\* parseArgs(...).values: the options passed on the command line, and for every
\* other declared option its `default` when that is not undefined.
parseArgs(argv) ==
    LET names == {configMap[p[1]][p[2]].argName : p \in {q \in PathSet : HasArg(q)}}
        defaultOf(a) ==
            (CHOOSE p \in PathSet : configMap[p[1]][p[2]].argName = a)
        present == {a \in names : a \in DOMAIN argv
                                  \/ defaults[defaultOf(a)[1]][defaultOf(a)[2]] # Undefined}
    IN  [a \in present |->
            IF a \in DOMAIN argv THEN Str(argv[a])
            ELSE defaults[defaultOf(a)[1]][defaultOf(a)[2]]]

\* fromArgs: every setter whose argName is in values runs setRawValue WITH the
\* definition, so the value is validated and a failure propagates.
RECURSIVE fromArgsFrom(_, _, _)
fromArgsFrom(st, vals, i) ==
    IF i > Len(AllPaths) THEN Outcome(FALSE, NoError, Undefined, st)
    ELSE LET p == AllPaths[i]
             a == configMap[p[1]][p[2]].argName
         IN  IF HasArg(p) /\ a \in DOMAIN vals
             THEN LET r == setRawValue(st, p, vals[a], "definition")
                  IN  IF r.threw THEN r ELSE fromArgsFrom(r.st, vals, i + 1)
             ELSE fromArgsFrom(st, vals, i + 1)

fromArgs(st, argv) == fromArgsFrom(st, parseArgs(argv), 1)

\* load(): fromEnvironment().fromJSON().fromArgs()
load(st, lcEnv, file, argv) ==
    fromArgs(fromJSON(fromEnvironment(st, lcEnv).st, file).st, argv)

\* setRaw(cat, prop, value) and set(cat, prop, value)
setRaw(st, cat, prop, value) ==
    LET def == getConfigDefinition(<<cat, prop>>)
    IN  IF def.threw THEN Outcome(TRUE, def.err, Undefined, st)
        ELSE setRawValue(st, <<cat, prop>>, value, def.kind)

set(st, cat, prop, value) == setRaw(st, cat, prop, Str(ToStr(value)))

----------------------------------------------------------------------------
(* Events and broadcasts. `out` lists, in order, what one handler emitted  *)
(* on the EventEmitter, what it sent over the sockets and which callbacks  *)
(* of the schema it called.                                                *)

NoTree == <<>>

\* The value tree as a listener sees it: category -> field -> value.
Tree(hp) == [c \in CatSet |-> Container(hp, c)]

Entry(kind, key, path, value, id, to, err, tree) ==
    [kind |-> kind, key |-> key, path |-> path, value |-> value, id |-> id,
     to |-> to, err |-> err, tree |-> tree]

\* this.emit(key, payload)
Emit(key, path, value) == Entry("emit", key, path, value, "", {}, NoError, NoTree)
EmitValues(tree) == Entry("emit", "values", <<>>, Undefined, "", {}, NoError, tree)
EmitError(err) == Entry("emit", "error", <<>>, Undefined, "", {}, err, NoTree)
EmitInvalid(path, rawValue, err) ==
    Entry("emit", "invalid_change", path, rawValue, "", {}, err, NoTree)
\* config.onInteract(path, value)
Interact(path, value) == Entry("call", "onInteract", path, value, "", {}, NoError, NoTree)

\* sendWss(data): JSON to every client whose readyState is OPEN.
OpenClients(cl) == {s \in Sockets : cl[s] = "open"}
sendWss(cl, key, id, err) == Entry("send", key, <<>>, Undefined, id, OpenClients(cl), err, NoTree)

\* err.issues?.map(e => e.message).join('; ') || err.message
RECURSIVE JoinMessages(_)
JoinMessages(issues) ==
    IF Len(issues) = 0 THEN ""
    ELSE IF Len(issues) = 1 THEN issues[1].message
    ELSE issues[1].message \o "; " \o JoinMessages(Tail(issues))

ErrorText(err) == IF Len(err.issues) > 0 THEN JoinMessages(err.issues) ELSE err.message

\* sendParseError(err, id, path, rawValue)
sendParseError(cl, err, id, path, rawValue) ==
    << sendWss(cl, "error", id, MkError(err.name, ErrorText(err))),
       EmitInvalid(path, rawValue, err) >>

\* getChangeKey(cat, def?): `change.${cat}` + def ? `.${def}` : ''
\* The conditional applies to the whole concatenation, which is never empty.
getChangeKey(cat, def) ==
    IF Falsy(Str(("change." \o cat) \o ToStr(def))) THEN "" ELSE "." \o ToStr(def)

\* onValueChange emitting 'values' before the three change events.
onValueChange_ValuesFirst(st, refs, hasErrorListener, path, value) ==
    LET def == getConfigDefinition(path)
        r == setRawValue(st, path, value, def.kind)
        conf == configMap[path[1]][path[2]]
        called == IF conf.onInteract THEN <<Interact(path, r.parsed)>> ELSE <<>>
        announced ==
            << Emit("change", path, r.parsed),
               Emit(getChangeKey(path[1], Undefined), path, r.parsed),
               Emit(getChangeKey(path[1], Str(path[2])), <<>>, r.parsed) >>
        v == values(r.st, refs)
        result(threw, err, s, o, written) ==
            [threw |-> threw, err |-> err, st |-> s, out |-> o,
             written |-> written, parsed |-> IF written THEN r.parsed ELSE Undefined]
    IN  IF def.threw THEN result(TRUE, def.err, st, <<>>, FALSE)
        ELSE IF r.threw THEN result(TRUE, r.err, r.st, <<>>, FALSE)
        ELSE IF ~v.threw
        THEN result(FALSE, NoError, v.st,
                    called \o <<EmitValues(Tree(v.st.heap))>> \o announced, TRUE)
        ELSE IF hasErrorListener
        THEN result(FALSE, NoError, v.st, called \o <<EmitError(v.err)>> \o announced, TRUE)
        ELSE result(TRUE, v.err, v.st, called \o announced, TRUE)

\* onValueChange handing the raw value of the message to the interaction
\* callback, after the 'change' event.
onValueChange_CallbackGetsRaw(st, refs, hasErrorListener, path, value) ==
    LET def == getConfigDefinition(path)
        r == setRawValue(st, path, value, def.kind)
        conf == configMap[path[1]][path[2]]
        announced ==
            << Emit("change", path, r.parsed) >>
            \o (IF conf.onInteract THEN <<Interact(path, value)>> ELSE <<>>)
            \o << Emit(getChangeKey(path[1], Undefined), path, r.parsed),
                  Emit(getChangeKey(path[1], Str(path[2])), <<>>, r.parsed) >>
        v == values(r.st, refs)
        result(threw, err, s, o, written) ==
            [threw |-> threw, err |-> err, st |-> s, out |-> o,
             written |-> written, parsed |-> IF written THEN r.parsed ELSE Undefined]
    IN  IF def.threw THEN result(TRUE, def.err, st, <<>>, FALSE)
        ELSE IF r.threw THEN result(TRUE, r.err, r.st, <<>>, FALSE)
        ELSE IF ~v.threw
        THEN result(FALSE, NoError, v.st, announced \o <<EmitValues(Tree(v.st.heap))>>, TRUE)
        ELSE IF hasErrorListener
        THEN result(FALSE, NoError, v.st, announced \o <<EmitError(v.err)>>, TRUE)
        ELSE result(TRUE, v.err, v.st, announced, TRUE)

\* onValueChange(path, value). EventEmitter.emit('error', e) throws e when no
\* 'error' listener is registered.
onValueChange(st, refs, hasErrorListener, path, value) ==
    LET def == getConfigDefinition(path)
        r == setRawValue(st, path, value, def.kind)
        conf == configMap[path[1]][path[2]]
        announced ==
            (IF conf.onInteract THEN <<Interact(path, r.parsed)>> ELSE <<>>)
            \o << Emit("change", path, r.parsed),
                  Emit(getChangeKey(path[1], Undefined), path, r.parsed),
                  Emit(getChangeKey(path[1], Str(path[2])), <<>>, r.parsed) >>
        v == values(r.st, refs)
        result(threw, err, s, o, written) ==
            [threw |-> threw, err |-> err, st |-> s, out |-> o,
             written |-> written, parsed |-> IF written THEN r.parsed ELSE Undefined]
    IN  IF def.threw THEN result(TRUE, def.err, st, <<>>, FALSE)
        ELSE IF r.threw THEN result(TRUE, r.err, r.st, <<>>, FALSE)
        ELSE IF ~v.threw
        THEN result(FALSE, NoError, v.st, announced \o <<EmitValues(Tree(v.st.heap))>>, TRUE)
        ELSE IF hasErrorListener
        THEN result(FALSE, NoError, v.st, announced \o <<EmitError(v.err)>>, TRUE)
        ELSE result(TRUE, v.err, v.st, announced, TRUE)

\* ws.on('message'): an empty frame is a keep-alive, a message without a path
\* is ignored; otherwise the edit is applied and acknowledged, or whatever
\* onValueChange threw is reported with sendParseError.
onMessage(st, refs, hasErrorListener, cl, msg) ==
    LET r == onValueChange(st, refs, hasErrorListener, msg.path, msg.value)
        ignored == [threw |-> FALSE, err |-> NoError, st |-> st, out |-> <<>>,
                    written |-> FALSE, parsed |-> Undefined]
    IN  IF msg.frame # "edit" THEN ignored
        ELSE IF ~r.threw
        THEN [r EXCEPT !.out = @ \o <<sendWss(cl, "ok", msg.id, NoError)>>]
        ELSE [r EXCEPT !.out = @ \o sendParseError(cl, r.err, msg.id, msg.path, msg.value)]

\* A replay that stops at the first invalid field.
replay_StopsAtFirstFailure(raw, cl, i) ==
    LET bad == {j \in i..Len(AllPaths) :
                   ~Parse(configMap[AllPaths[j][1]][AllPaths[j][2]].type,
                          raw[AllPaths[j][1]][AllPaths[j][2]]).ok}
        first == CHOOSE j \in bad : \A k \in bad : j <= k
        p == AllPaths[first]
    IN  IF bad = {} THEN <<>>
        ELSE sendParseError(cl, ZodError(<<[path |-> p,
                                           message |-> Parse(configMap[p[1]][p[2]].type,
                                                             raw[p[1]][p[2]]).message]>>),
                            pathToElementId(p), p, raw[p[1]][p[2]])

\* The replay a new connection gets: every field's current raw value is parsed
\* and each failure is reported with the field's element id.
RECURSIVE replay(_, _, _)
replay(raw, cl, i) ==
    IF i > Len(AllPaths) THEN <<>>
    ELSE LET p == AllPaths[i]
             r == Parse(configMap[p[1]][p[2]].type, raw[p[1]][p[2]])
         IN  (IF r.ok THEN <<>>
              ELSE sendParseError(cl, ZodError(<<[path |-> p, message |-> r.message]>>),
                                  pathToElementId(p), p, raw[p[1]][p[2]]))
             \o replay(raw, cl, i + 1)

----------------------------------------------------------------------------
(* Inputs of the model.                                                    *)

\* The raw values a source can supply for a field: one the field's type
\* accepts and one it rejects.
EnvValue == [k \in {"fish_kind", "fish_count", "pond_kind"} |->
               CASE k = "fish_kind" -> "Herring"
                 [] k = "fish_count" -> "42"
                 [] k = "pond_kind" -> "0"]
JsonValue(c, f) ==
    CASE c = "fish" /\ f = "kind" -> Str("Salmon")
      [] c = "fish" /\ f = "count" -> Str("-1")
      [] OTHER -> Str("maybe")
ArgValues(a) == IF a = "count" THEN {"42", "-1"} ELSE {"0"}

\* Every environment: any subset of the variables the schema reads.
Envs == {[k \in ks |-> EnvValue[k]] : ks \in SUBSET DOMAIN EnvValue}

\* Every JSON file in the persisted layout { category: { field: rawValue } }:
\* any subset of the categories, each with any subset of its fields.
JsonObjects ==
    UNION {
      {[c \in cs |-> [f \in pick[c] |-> JsonValue(c, f)]] :
          pick \in [cs -> SUBSET {"kind", "count"}]} : cs \in SUBSET CatSet }
JsonFiles == {NoFile} \cup
    {File(o) : o \in {j \in JsonObjects : \A c \in DOMAIN j : DOMAIN j[c] \subseteq KeySet(c)}}

\* Every command line: any subset of the declared options, each with a value.
ArgNames == {"count", "pond-kind"}
Argvs == {a \in UNION {[as -> {"42", "-1", "0"}] : as \in SUBSET ArgNames} :
             \A n \in DOMAIN a : a[n] \in ArgValues(n)}

\* What a client types into the element of a field, and what the host passes
\* to setRaw / set.
EditValues(p) ==
    CASE p = <<"fish", "kind">> -> {Str("Salmon"), Str("Herring")}
      [] p = <<"fish", "count">> -> {Str("42"), Str("-1")}
      [] OTHER -> {Str("0"), Str("maybe")}
TypedValues(p) ==
    CASE p = <<"fish", "kind">> -> {Str("Salmon")}
      [] p = <<"fish", "count">> -> {Num(42), Num(0 - 1)}
      [] OTHER -> {Bool(TRUE)}

\* Paths a client can put in a message besides those of the fields.
BadPaths == { <<"fish">>, <<"lake", "kind">>,
              <<"fish", "count", "displayName">>, <<"pond", "kind", "displayName">> }

\* sendValue(path, value, id) of the page script: the id is the element's id,
\* which the page derived from the path.
EditMsg(path, value) ==
    [frame |-> "edit", path |-> path, value |-> value, id |-> pathToElementId(path)]
KeepAlive == [frame |-> "empty", path |-> <<>>, value |-> Undefined, id |-> ""]
EventMsg == [frame |-> "event", path |-> <<>>, value |-> Undefined, id |-> ""]

----------------------------------------------------------------------------
(* The state machine.                                                      *)

\* An event loop with nothing queued and no handler begun.
NoLoop == [inbox |-> <<>>, arrived |-> 0, running |-> [n \in 1..MaxEdits |-> <<>>],
           reads |-> [n \in 1..MaxEdits |-> FALSE], log |-> <<>>]

NoSrc == [env |-> <<>>, file |-> NoFile, argv |-> <<>>]
Call(op, path, value, id, sock, r, written, parsed, src) ==
    [op |-> op, path |-> path, value |-> value, id |-> id, sock |-> sock,
     threw |-> r.threw, err |-> r.err, written |-> written, parsed |-> parsed,
     src |-> src]

\* The outcome of a call that returns nothing and does not throw.
NoOutcome == [threw |-> FALSE, err |-> NoError]

store == Store(rawInputMap, heap, isValueMapDirty)

\* The default taken from the type first: type.def.defaultValue ?? confDef.default
DefaultRaw_TypeDefaultFirst(p) ==
    IF configMap[p[1]][p[2]].type.defaultValue # Undefined
    THEN configMap[p[1]][p[2]].type.defaultValue
    ELSE defaults[p[1]][p[2]]

\* confDef.default ?? confDef.type.def.defaultValue
DefaultRaw(p) ==
    IF defaults[p[1]][p[2]] # Undefined THEN defaults[p[1]][p[2]]
    ELSE configMap[p[1]][p[2]].type.defaultValue

\* this.valueMap after the constructor: an empty container per category.
NewHeap ==
    [o \in ObjIds |->
        IF o = Root THEN [c \in CatSet |-> CHOOSE i \in 1..Len(Cats) : Cats[i] = c]
        ELSE IF o \in 1..Len(Cats) THEN [f \in KeySet(Cats[o]) |-> Undefined]
        ELSE NoObject]

\* The host holds no error of a read.
NoCatch == [on |-> FALSE, fields |-> {}, fixed |-> <<>>]

\* The host caught `err` from a read: the fields its issues name are to be
\* repaired.
Catch(err) ==
    [on |-> TRUE, fields |-> {err.issues[i].path : i \in 1..Len(err.issues)},
     fixed |-> <<>>]

\* What the host still has to repair after a validated write of `path`: a
\* write that succeeded takes the field off the list, anything else ends the
\* repair.
Repaired(ct, path, written, parsed) ==
    IF ~ct.on THEN ct
    ELSE IF written /\ path \in PathSet
    THEN [on |-> TRUE, fields |-> ct.fields \ {path},
          fixed |-> (path :> parsed) @@ ct.fixed]
    ELSE NoCatch

\* The constructor, given the `default` of every definition: every field's
\* default goes through the unvalidated setRawValue, which also creates an
\* empty container per category.
Construct(d) ==
    /\ defaults = d
    /\ rawInputMap = [c \in CatSet |-> [f \in KeySet(c) |-> DefaultRaw(<<c, f>>)]]
    /\ heap = NewHeap
    /\ isValueMapDirty = TRUE
    /\ errorListener = FALSE
    /\ server = "none"
    /\ wssPing = "none"
    /\ isAlive = [s \in Sockets |-> FALSE]
    /\ waiters = 0
    /\ stayOpen = FALSE
    /\ aborted = FALSE
    /\ clients = [s \in Sockets |-> "none"]
    /\ hostRefs = {}
    /\ caught = NoCatch
    /\ displayMap = [c \in CatSet |-> ""]
    /\ loop = NoLoop
    /\ out = <<>>
    /\ last = Call("new", <<>>, Undefined, "", 0, Outcome(FALSE, NoError, Undefined, store),
                   FALSE, Undefined, NoSrc)

\* The panel built from the schema as configMap gives it.
Init == Construct([c \in CatSet |-> [f \in KeySet(c) |-> configMap[c][f].default]])

Commit(st) ==
    /\ rawInputMap' = st.raw
    /\ heap' = st.heap
    /\ isValueMapDirty' = st.dirty

Channel == <<server, wssPing, isAlive, waiters, stayOpen, aborted, clients>>
StoreVars == <<rawInputMap, heap, isValueMapDirty>>

\* The host calls a loader.
FromEnvironment(lcEnv) ==
    \E r \in {fromEnvironment(store, lcEnv)} :
    /\ Commit(r.st)
    /\ out' = <<>>
    /\ last' = Call("fromEnvironment", <<>>, Undefined, "", 0, r, FALSE, Undefined, NoSrc)
    /\ caught' = NoCatch
    /\ UNCHANGED <<defaults, displayMap, loop, errorListener, Channel, hostRefs>>

FromJSON(file) ==
    \E r \in {fromJSON(store, file)} :
    /\ Commit(r.st)
    /\ out' = <<>>
    /\ last' = Call("fromJSON", <<>>, Undefined, "", 0, r, FALSE, Undefined,
                    [NoSrc EXCEPT !.file = file])
    /\ caught' = NoCatch
    /\ UNCHANGED <<defaults, displayMap, loop, errorListener, Channel, hostRefs>>

FromArgs(argv) ==
    \E r \in {fromArgs(store, argv)} :
    /\ Commit(r.st)
    /\ out' = <<>>
    /\ last' = Call("fromArgs", <<>>, Undefined, "", 0, r, FALSE, Undefined,
                    [NoSrc EXCEPT !.argv = argv])
    /\ caught' = NoCatch
    /\ UNCHANGED <<defaults, displayMap, loop, errorListener, Channel, hostRefs>>

Load(lcEnv, file, argv) ==
    \E r \in {load(store, lcEnv, file, argv)} :
    /\ Commit(r.st)
    /\ out' = <<>>
    /\ last' = Call("load", <<>>, Undefined, "", 0, r, FALSE, Undefined,
                    [env |-> lcEnv, file |-> file, argv |-> argv])
    /\ caught' = NoCatch
    /\ UNCHANGED <<defaults, displayMap, loop, errorListener, Channel, hostRefs>>

\* The host reads panel.values.
GetValues ==
    \E r \in {values(store, hostRefs)} :
    /\ Commit(r.st)
    /\ out' = <<>>
    /\ last' = Call("values", <<>>, Undefined, "", 0, r, FALSE, Undefined, NoSrc)
    /\ UNCHANGED <<defaults, caught, displayMap, loop, errorListener, Channel, hostRefs>>

\* The host reads panel.values inside try/catch, the read fails, and the host
\* keeps the error it caught.
CatchValues ==
    \E r \in {values(store, hostRefs)} :
    /\ r.threw
    /\ Commit(r.st)
    /\ out' = <<>>
    /\ last' = Call("values", <<>>, Undefined, "", 0, r, FALSE, Undefined, NoSrc)
    /\ caught' = Catch(r.err)
    /\ UNCHANGED <<defaults, displayMap, loop, errorListener, Channel, hostRefs>>

\* The host reads panel.values and keeps values[c], the category container.
TakeRef(c) ==
    \E r \in {values(store, hostRefs)} :
    /\ ~r.threw
    /\ Cardinality(hostRefs \cup {r.st.heap[Root][c]}) <= MaxRefs
    /\ Commit(r.st)
    /\ hostRefs' = hostRefs \cup {r.st.heap[Root][c]}
    /\ out' = <<>>
    /\ last' = Call("values", <<c>>, Undefined, "", 0, r, FALSE, Undefined, NoSrc)
    /\ UNCHANGED <<defaults, caught, displayMap, loop, errorListener, Channel>>

\* The host drops a reference it held.
DropRef(o) ==
    /\ o \in hostRefs
    /\ hostRefs' = hostRefs \ {o}
    /\ heap' = Collect(heap, hostRefs \ {o})
    /\ out' = <<>>
    /\ last' = Call("drop", <<>>, Undefined, "", 0, Outcome(FALSE, NoError, Undefined, store),
                    FALSE, Undefined, NoSrc)
    /\ UNCHANGED <<defaults, caught, displayMap, loop, rawInputMap, isValueMapDirty, errorListener, Channel>>

\* setRaw as it would be if the host's write went through onValueChange, as
\* an inbound edit does.
SetRaw_AnnouncesLikeEdit(cat, prop, value) ==
    \E r \in {onValueChange(store, hostRefs, errorListener, <<cat, prop>>, value)} :
    /\ Commit(r.st)
    /\ out' = r.out
    /\ last' = Call("setRaw", <<cat, prop>>, value, "", 0, r, r.written, r.parsed, NoSrc)
    /\ caught' = Repaired(caught, <<cat, prop>>, r.written, r.parsed)
    /\ UNCHANGED <<defaults, displayMap, loop, errorListener, Channel, hostRefs>>

\* The host calls setRaw(cat, prop, value) / set(cat, prop, value).
SetRaw(cat, prop, value) ==
    \E r \in {setRaw(store, cat, prop, value)} :
    /\ Commit(r.st)
    /\ out' = <<>>
    /\ last' = Call("setRaw", <<cat, prop>>, value, "", 0, r, ~r.threw, r.parsed, NoSrc)
    /\ caught' = Repaired(caught, <<cat, prop>>, ~r.threw, r.parsed)
    /\ UNCHANGED <<defaults, displayMap, loop, errorListener, Channel, hostRefs>>

Set(cat, prop, value) ==
    \E r \in {set(store, cat, prop, value)} :
    /\ Commit(r.st)
    /\ out' = <<>>
    /\ last' = Call("set", <<cat, prop>>, value, "", 0, r, ~r.threw, r.parsed, NoSrc)
    /\ caught' = Repaired(caught, <<cat, prop>>, ~r.threw, r.parsed)
    /\ UNCHANGED <<defaults, displayMap, loop, errorListener, Channel, hostRefs>>

\* The host registers a listener for 'error'.
OnError ==
    /\ ~errorListener
    /\ errorListener' = TRUE
    /\ out' = <<>>
    /\ last' = Call("on", <<>>, Undefined, "", 0, Outcome(FALSE, NoError, Undefined, store),
                    FALSE, Undefined, NoSrc)
    /\ UNCHANGED <<defaults, caught, displayMap, loop, rawInputMap, heap, isValueMapDirty, Channel, hostRefs>>

\* The host saves the raw store. The call remembers the setRaw it follows.
ToJSON ==
    /\ out' = <<>>
    /\ last' = Call("toJSON", last.path, last.value, "", 0, NoOutcome, last.written,
                    last.parsed, [NoSrc EXCEPT !.file = toJSON(store)])
    /\ UNCHANGED <<defaults, caught, displayMap, loop, StoreVars, errorListener, Channel, hostRefs>>

\* The host loads the file it has just saved into the same panel.
FromSavedJSON ==
    \E r \in {fromJSON(store, last.src.file)} :
    /\ Commit(r.st)
    /\ out' = <<>>
    /\ last' = Call("fromJSON", last.path, last.value, "", 0, r, last.written, last.parsed,
                    last.src)
    /\ caught' = NoCatch
    /\ UNCHANGED <<defaults, displayMap, loop, errorListener, Channel, hostRefs>>

\* A fresh panel is built from the same schema and loads the saved file.
FreshFromJSON ==
    \E r \in {fromJSON(Store([c \in CatSet |-> [f \in KeySet(c) |-> DefaultRaw(<<c, f>>)]],
                              NewHeap, TRUE),
                        last.src.file)} :
    /\ Commit(r.st)
    /\ out' = <<>>
    /\ last' = Call("freshFromJSON", <<>>, Undefined, "", 0, r, FALSE, Undefined, last.src)
    /\ caught' = NoCatch
    /\ UNCHANGED <<defaults, displayMap, loop, errorListener, Channel, hostRefs>>

----------------------------------------------------------------------------
(* The channel.                                                            *)

\* The payload of the 'abort' event the listener passes on to emit('exit').
AbortEvent == [t |-> "object", s |-> "Event", n |-> 0]

\* abort as it would be if a signal fired at every call.
abort_FiresEveryTime(cl, srv, ping, isAborted) ==
    [clients |-> [s \in Sockets |-> IF cl[s] = "open" THEN "closing" ELSE cl[s]],
     server |-> IF srv = "listening" THEN "closed"
                ELSE IF srv = "binding" THEN "unbinding" ELSE srv,
     wssPing |-> IF ping = "active" THEN "cleared" ELSE ping,
     out |-> <<Emit("exit", <<>>, AbortEvent)>>]

\* abort as it would be if the listener's cleanup ran once but 'exit' were
\* emitted at every call.
abort_ExitAtEveryCall(cl, srv, ping, isAborted) ==
    [clients |-> IF isAborted THEN cl
                 ELSE [s \in Sockets |-> IF cl[s] = "open" THEN "closing" ELSE cl[s]],
     server |-> IF isAborted THEN srv
                ELSE IF srv = "listening" THEN "closed"
                ELSE IF srv = "binding" THEN "unbinding" ELSE srv,
     wssPing |-> IF ~isAborted /\ ping = "active" THEN "cleared" ELSE ping,
     out |-> <<Emit("exit", <<>>, AbortEvent)>>]

\* abortCtrl.abort(reason): the first call fires the abort listener, which
\* terminates every client (readyState CLOSING, its 'close' still to come),
\* closes the servers, clears the ping interval and emits 'exit'; later calls
\* do nothing. A server that is still binding has close() called on it before
\* it listens.
abort(cl, srv, ping, isAborted) ==
    IF isAborted
    THEN [clients |-> cl, server |-> srv, wssPing |-> ping, out |-> <<>>]
    ELSE [clients |-> [s \in Sockets |-> IF cl[s] = "open" THEN "closing" ELSE cl[s]],
          server |-> IF srv = "listening" THEN "closed"
                     ELSE IF srv = "binding" THEN "unbinding" ELSE srv,
          wssPing |-> IF ping = "active" THEN "cleared" ELSE ping,
          out |-> <<Emit("exit", <<>>, AbortEvent)>>]

\* A waitForClose that resolved whatever this.values did.
Settled_AlwaysResolves(v) ==
    Entry("settle", "resolve", <<>>, Undefined, "", {}, NoError, Tree(v.st.heap))

\* What a waitForClose promise settles with: `return this.values`.
Settled(v) ==
    IF v.threw THEN Entry("settle", "reject", <<>>, Undefined, "", {}, v.err, NoTree)
    ELSE Entry("settle", "resolve", <<>>, Undefined, "", {}, NoError, Tree(v.st.heap))

\* 'exit' resuming one waitForClose only, as a listener shared by all the
\* calls would.
settle_FirstWaiterOnly(st, refs, n) ==
    IF n = 0 THEN [st |-> st, out |-> <<>>]
    ELSE [st |-> values(st, refs).st,
          out |-> <<Settled(values(st, refs))>>]

\* 'exit' resumes the n waitForClose calls that were pending; each returns
\* this.values.
settle(st, refs, n) ==
    IF n = 0 THEN [st |-> st, out |-> <<>>]
    ELSE [st |-> values(st, refs).st,
          out |-> [i \in 1..n |-> Settled(values(st, refs))]]

\* startInterface / startWss: the http and websocket servers are created and
\* listen() is called; when this.server exists already the call returns at
\* once. The first call's config is the one the connection handler sees.
StartInterface(stay) ==
    /\ server' = IF server = "none" THEN "binding" ELSE server
    /\ stayOpen' = IF server = "none" THEN stay ELSE stayOpen
    /\ out' = <<>>
    /\ last' = Call("startInterface", <<>>, Undefined, "", 0, NoOutcome, FALSE, Undefined,
                    NoSrc)
    /\ UNCHANGED <<defaults, caught, displayMap, loop, StoreVars, errorListener, wssPing, isAlive, waiters, aborted,
                   clients, hostRefs>>

\* The http server has bound. While the panel runs the websocket server
\* forwards 'listening': startWss resumes, starts the ping interval and emits
\* 'port'. A websocket server that was closed while binding has dropped its
\* listeners on the http server: startWss never resumes.
Listening ==
    /\ server \in {"binding", "unbinding"}
    /\ IF server = "binding"
       THEN /\ server' = "listening"
            /\ wssPing' = "active"
            /\ out' = <<Emit("port", <<>>, Undefined)>>
       ELSE /\ server' = "closed"
            /\ UNCHANGED wssPing
            /\ out' = <<>>
    /\ last' = Call("listening", <<>>, Undefined, "", 0, NoOutcome, FALSE, Undefined, NoSrc)
    /\ UNCHANGED <<defaults, caught, displayMap, loop, StoreVars, errorListener, isAlive, waiters, stayOpen, aborted,
                   clients, hostRefs>>

\* wss 'connection': the socket joins wss.clients, open and alive, and gets
\* the replay.
Connect(s) ==
    /\ server = "listening"
    /\ clients[s] = "none"
    /\ clients' = [clients EXCEPT ![s] = "open"]
    /\ isAlive' = [isAlive EXCEPT ![s] = TRUE]
    /\ out' = replay(rawInputMap, clients', 1)
    /\ last' = Call("connection", <<>>, Undefined, "", s, NoOutcome, FALSE, Undefined, NoSrc)
    /\ UNCHANGED <<defaults, caught, displayMap, loop, StoreVars, errorListener, server, wssPing, waiters, stayOpen,
                   aborted, hostRefs>>

\* ws 'message' from an open socket.
Message(s, msg) ==
    /\ clients[s] = "open"
    /\ \E r \in {onMessage(store, hostRefs, errorListener, clients, msg)} :
          /\ Commit(r.st)
          /\ out' = r.out
          /\ last' = Call("message", msg.path, msg.value, msg.id, s, r, r.written,
                          r.parsed, NoSrc)
          /\ caught' = IF msg.frame = "edit"
                       THEN Repaired(caught, msg.path, r.written, r.parsed)
                       ELSE caught
    /\ UNCHANGED <<defaults, displayMap, loop, errorListener, Channel, hostRefs>>

\* The peer starts the closing handshake: the socket stays in wss.clients but
\* its readyState is no longer OPEN.
ClientClosing(s) ==
    /\ clients[s] = "open"
    /\ clients' = [clients EXCEPT ![s] = "closing"]
    /\ out' = <<>>
    /\ last' = Call("closing", <<>>, Undefined, "", s, NoOutcome, FALSE, Undefined, NoSrc)
    /\ UNCHANGED <<defaults, caught, displayMap, loop, StoreVars, errorListener, server, wssPing, isAlive, waiters,
                   stayOpen, aborted, hostRefs>>

\* The error a socket reports.
SocketErr == MkError("Error", "socket error")

\* ws 'error': console.error, then the second listener emits 'error' on the
\* panel and terminates the socket. Without an 'error' listener on the panel
\* emit throws out of the listener before ws.terminate(): an uncaught
\* exception.
SocketError(s) ==
    /\ clients[s] = "open"
    /\ IF errorListener
       THEN /\ clients' = [clients EXCEPT ![s] = "closing"]
            /\ out' = <<EmitError(SocketErr)>>
            /\ last' = Call("socketError", <<>>, Undefined, "", s, NoOutcome, FALSE,
                            Undefined, NoSrc)
       ELSE /\ UNCHANGED clients
            /\ out' = <<>>
            /\ last' = Call("socketError", <<>>, Undefined, "", s,
                            [threw |-> TRUE, err |-> SocketErr], FALSE, Undefined, NoSrc)
    /\ UNCHANGED <<defaults, caught, displayMap, loop, StoreVars, errorListener, server, wssPing, isAlive, waiters,
                   stayOpen, aborted, hostRefs>>

\* An exception no handler caught ends the process.
Fatal == last.op = "socketError" /\ last.threw

\* ws 'pong'
Pong(s) ==
    /\ clients[s] = "open"
    /\ isAlive' = [isAlive EXCEPT ![s] = TRUE]
    /\ out' = <<>>
    /\ last' = Call("pong", <<>>, Undefined, "", s, NoOutcome, FALSE, Undefined, NoSrc)
    /\ UNCHANGED <<defaults, caught, displayMap, loop, StoreVars, errorListener, server, wssPing, waiters, stayOpen,
                   aborted, clients, hostRefs>>

\* ws.ping() of the interval
Ping(s) == Entry("ping", "", <<>>, Undefined, "", {s}, NoError, NoTree)

RECURSIVE Pings(_, _)
Pings(cl, s) ==
    IF s > MaxClients THEN <<>>
    ELSE (IF cl[s] # "none" /\ isAlive[s] THEN <<Ping(s)>> ELSE <<>>) \o Pings(cl, s + 1)

\* A tick that pings every client again and terminates none.
PingTick_KeepsSilentClients ==
    /\ wssPing = "active"
    /\ IF aborted
       THEN /\ server' = IF server = "listening" THEN "closed" ELSE server
            /\ wssPing' = "cleared"
            /\ out' = <<>>
            /\ UNCHANGED <<clients, isAlive>>
       ELSE /\ isAlive' = [s \in Sockets |-> FALSE]
            /\ out' = Pings(clients, 1)
            /\ UNCHANGED <<clients, server, wssPing>>
    /\ last' = Call("pingTick", <<>>, Undefined, "", 0, NoOutcome, FALSE, Undefined, NoSrc)
    /\ UNCHANGED <<defaults, caught, displayMap, loop, StoreVars, errorListener, waiters, stayOpen, aborted, hostRefs>>

\* A tick of the ping interval: once the panel is closed the interval closes
\* the websocket server and clears itself; otherwise every client of
\* wss.clients that has not answered the last ping is terminated and the
\* others are pinged.
PingTick ==
    /\ wssPing = "active"
    /\ IF aborted
       THEN /\ server' = IF server = "listening" THEN "closed" ELSE server
            /\ wssPing' = "cleared"
            /\ out' = <<>>
            /\ UNCHANGED <<clients, isAlive>>
       ELSE /\ clients' = [s \in Sockets |->
                             IF clients[s] = "open" /\ ~isAlive[s] THEN "closing"
                             ELSE clients[s]]
            /\ isAlive' = [s \in Sockets |-> FALSE]
            /\ out' = Pings(clients, 1)
            /\ UNCHANGED <<server, wssPing>>
    /\ last' = Call("pingTick", <<>>, Undefined, "", 0, NoOutcome, FALSE, Undefined, NoSrc)
    /\ UNCHANGED <<defaults, caught, displayMap, loop, StoreVars, errorListener, waiters, stayOpen, aborted, hostRefs>>

\* What closing the panel does: the abort listener, then the continuation of
\* every pending waitForClose.
Abort(cl) ==
    \E a \in {abort(cl, server, wssPing, aborted)} :
    \E w \in {settle(store, hostRefs, IF aborted THEN 0 ELSE waiters)} :
        /\ clients' = a.clients
        /\ server' = a.server
        /\ wssPing' = a.wssPing
        /\ aborted' = TRUE
        /\ waiters' = 0
        /\ Commit(w.st)
        /\ out' = a.out \o w.out

\* A 'close' handler that closes the panel whatever stayOpen is.
SocketClose_IgnoresStayOpen(s) ==
    /\ clients[s] # "none"
    /\ Abort([clients EXCEPT ![s] = "none"])
    /\ isAlive' = [isAlive EXCEPT ![s] = FALSE]
    /\ last' = Call("close", <<>>, Str("panel closed by user"), "", s, NoOutcome, FALSE,
                    Undefined, NoSrc)
    /\ UNCHANGED <<defaults, caught, displayMap, loop, errorListener, stayOpen, hostRefs>>

\* ws 'close': the socket has left wss.clients; unless stayOpen,
\* closePanel('panel closed by user'), recorded as the value of the call.
SocketClose(s) ==
    /\ clients[s] # "none"
    /\ IF stayOpen
       THEN /\ clients' = [clients EXCEPT ![s] = "none"]
            /\ out' = <<>>
            /\ UNCHANGED <<StoreVars, server, wssPing, aborted, waiters>>
       ELSE Abort([clients EXCEPT ![s] = "none"])
    /\ isAlive' = [isAlive EXCEPT ![s] = FALSE]
    /\ last' = Call("close", <<>>,
                    IF stayOpen THEN Undefined ELSE Str("panel closed by user"),
                    "", s, NoOutcome, FALSE, Undefined, NoSrc)
    /\ UNCHANGED <<defaults, caught, displayMap, loop, errorListener, stayOpen, hostRefs>>

\* The host calls closePanel(reason), or closePanel() when `given` is
\* undefined: the reason, 'closed manually' by default, is handed to
\* abortCtrl.abort and recorded as the value of the call.
ClosePanel(given) ==
    /\ Abort(clients)
    /\ last' = Call("closePanel", <<>>,
                    IF given = Undefined THEN Str("closed manually") ELSE given,
                    "", 0, NoOutcome, FALSE, Undefined, NoSrc)
    /\ UNCHANGED <<defaults, caught, displayMap, loop, errorListener, isAlive, stayOpen, hostRefs>>

\* The host calls waitForClose(): on a closed panel the promise settles with
\* this.values at once, otherwise it waits for 'exit'.
WaitForClose ==
    /\ IF aborted
       THEN \E v \in {values(store, hostRefs)} :
               /\ Commit(v.st)
               /\ out' = <<Settled(v)>>
               /\ last' = Call("waitForClose", <<>>, Undefined, "", 0, v, FALSE, Undefined,
                               NoSrc)
               /\ UNCHANGED waiters
       ELSE /\ waiters < MaxWaiters
            /\ waiters' = waiters + 1
            /\ out' = <<>>
            /\ last' = Call("waitForClose", <<>>, Undefined, "", 0, NoOutcome, FALSE,
                            Undefined, NoSrc)
            /\ UNCHANGED StoreVars
    /\ UNCHANGED <<defaults, caught, displayMap, loop, errorListener, server, wssPing, isAlive, stayOpen, aborted,
                   clients, hostRefs>>

----------------------------------------------------------------------------
(* The side channel: html shown above a category, and enabling elements.   *)

\* Helpers.escapeHtml: every character that is not a digit, a letter or a
\* space becomes its numeric entity.
escapeHtml(t) == CASE t = "<b>" -> "&#60;b&#62;" [] OTHER -> t

\* sendHTML that would also announce a change.
sendHTML_EmitsChange(dm, cl, cat, content) ==
    [displayMap |-> [dm EXCEPT ![cat] = content],
     out |-> << Entry("send", "html", <<cat>>, Str(content), "", OpenClients(cl), NoError,
                      NoTree),
                Emit("change", <<cat>>, Str(content)) >>]

\* sendHTML(cat, ...html) with the joined content: the content is kept in
\* displayMap, or removed from it when empty, and {html, cat} is broadcast.
sendHTML(dm, cl, cat, content) ==
    [displayMap |-> [dm EXCEPT ![cat] = content],
     out |-> << Entry("send", "html", <<cat>>, Str(content), "", OpenClients(cl), NoError,
                      NoTree) >>]

SendHTML(cat, content) ==
    \E r \in {sendHTML(displayMap, clients, cat, content)} :
    /\ displayMap' = r.displayMap
    /\ out' = r.out
    /\ last' = Call("sendHTML", <<cat>>, Str(content), "", 0, NoOutcome, FALSE, Undefined, NoSrc)
    /\ UNCHANGED <<defaults, caught, loop, StoreVars, errorListener, Channel, hostRefs>>

SendText(cat, text) ==
    \E r \in {sendHTML(displayMap, clients, cat, escapeHtml(text))} :
    /\ displayMap' = r.displayMap
    /\ out' = r.out
    /\ last' = Call("sendText", <<cat>>, Str(text), "", 0, NoOutcome, FALSE, Undefined, NoSrc)
    /\ UNCHANGED <<defaults, caught, loop, StoreVars, errorListener, Channel, hostRefs>>

\* toggleElement(cat, prop, enabled): {enable, id} is broadcast.
ToggleElement(cat, prop, enabled) ==
    /\ out' = << Entry("send", "enable", <<>>, Bool(enabled), pathToElementId(<<cat, prop>>),
                       OpenClients(clients), NoError, NoTree) >>
    /\ last' = Call("toggleElement", <<cat, prop>>, Bool(enabled), "", 0, NoOutcome, FALSE,
                    Undefined, NoSrc)
    /\ UNCHANGED <<defaults, caught, displayMap, loop, StoreVars, errorListener, Channel, hostRefs>>

----------------------------------------------------------------------------
(* The 'message' handler step by step. A handler that has begun is a list  *)
(* of what it has still to do; `loop.log` is what every handler did, in    *)
(* the order an observer sees it.                                          *)

\* The write of an accepted edit, as the log records it.
WriteMark(msg) == Entry("write", "", msg.path, msg.value, msg.id, {}, NoError, NoTree)

\* A frame arrives on an open socket and waits for its 'message' callback.
Arrive(s, m) ==
    /\ clients[s] = "open"
    /\ loop.arrived < MaxEdits
    /\ loop' = [loop EXCEPT !.arrived = @ + 1,
                            !.inbox = Append(@, [n |-> loop.arrived + 1, sock |-> s,
                                                 msg |-> m])]
    /\ UNCHANGED <<defaults, caught, displayMap, StoreVars, errorListener, Channel, hostRefs, out, last>>

\* An event loop that would call the next callback while a handler that has
\* begun is suspended.
CanDispatch_WhileRunning(running) == TRUE

\* The handler is synchronous, without any await: the event loop calls the
\* next callback only when no handler is running.
CanDispatch(running) == \A n \in DOMAIN running : running[n] = <<>>

\* The callback of the oldest frame begins: the edit is validated and, when
\* accepted, written by setRawValue; the callbacks, events and replies
\* follow.
Dispatch ==
    /\ loop.inbox # <<>>
    /\ CanDispatch(loop.running)
    /\ \E h \in {Head(loop.inbox)} :
       \E r \in {onMessage(store, hostRefs, errorListener, clients, h.msg)} :
          /\ Commit(IF r.written
                    THEN setRawValue(store, h.msg.path, h.msg.value,
                                     getConfigDefinition(h.msg.path).kind).st
                    ELSE store)
          /\ loop' = [loop EXCEPT !.inbox = Tail(@),
                                  !.running[h.n] = r.out,
                                  !.reads[h.n] = r.written,
                                  !.log = @ \o (IF r.written
                                                THEN <<[edit |-> h.n, e |-> WriteMark(h.msg)]>>
                                                ELSE <<>>)]
    /\ UNCHANGED <<defaults, caught, displayMap, errorListener, Channel, hostRefs, out, last>>

\* onInteract and the three change events come before the read of
\* this.values.
IsAnnounce(e) ==
    \/ e.kind = "call"
    \/ e.kind = "emit" /\ e.key \notin {"values", "error", "invalid_change"}

\* A handler that has begun does its next callback, emit or send; an
\* accepted edit reads this.values once the change events are out.
Step(n) ==
    /\ loop.running[n] # <<>>
    /\ \E e \in {Head(loop.running[n])} :
          /\ IF loop.reads[n] /\ ~IsAnnounce(e)
             THEN Commit(values(store, hostRefs).st)
             ELSE UNCHANGED StoreVars
          /\ loop' = [loop EXCEPT !.running[n] = Tail(@),
                                  !.reads[n] = @ /\ IsAnnounce(e),
                                  !.log = Append(@, [edit |-> n, e |-> e])]
    /\ UNCHANGED <<defaults, caught, displayMap, errorListener, Channel, hostRefs, out, last>>

----------------------------------------------------------------------------
(* Specifications.                                                         *)

FieldMessages ==
    {KeepAlive, EventMsg}
    \cup UNION {{EditMsg(p, v) : v \in EditValues(p)} : p \in PathSet}

BadMessages == {EditMsg(p, Str("42")) : p \in BadPaths}

\* The sources the host loads while clients are editing: an environment that
\* sets every variable, files that name one category, single options.
LiveEnvs == {e \in Envs : DOMAIN e = DOMAIN EnvValue}
LiveJsonFiles == {j \in JsonFiles : j.exists /\ Cardinality(DOMAIN j.obj) = 1
                                     /\ \A c \in DOMAIN j.obj : Cardinality(DOMAIN j.obj[c]) = 1}
LiveArgvs == {a \in Argvs : DOMAIN a = {"count"}}

\* The handler that was running returns to the event loop: what it emitted
\* has been delivered, and the next callback can run.
IdleCall == Call("idle", <<>>, Undefined, "", 0, Outcome(FALSE, NoError, Undefined, store),
                 FALSE, Undefined, NoSrc)
Idle == last.op = "idle"

Return ==
    /\ ~Idle
    /\ ~Fatal
    /\ out' = <<>>
    /\ last' = IdleCall
    /\ UNCHANGED <<defaults, caught, displayMap, loop, rawInputMap, heap, isValueMapDirty, errorListener, Channel, hostRefs>>

\* What the host calls between two callbacks.
Host ==
    \/ Idle /\ \E e \in LiveEnvs : FromEnvironment(e)
    \/ Idle /\ \E j \in LiveJsonFiles : FromJSON(j)
    \/ Idle /\ \E a \in LiveArgvs : FromArgs(a)
    \/ Idle /\ GetValues
    \/ Idle /\ \E p \in PathSet : \E v \in EditValues(p) : SetRaw(p[1], p[2], v)
    \/ Idle /\ \E p \in PathSet : \E v \in TypedValues(p) : Set(p[1], p[2], v)

\* The channel of a panel whose interface was started with stayOpen and is
\* not closed, with clients that send edits of fields.
Handlers ==
    \/ Idle /\ OnError
    \/ Idle /\ StartInterface(TRUE)
    \/ Idle /\ Listening
    \/ Idle /\ \E s \in Sockets : Connect(s)
    \/ Idle /\ \E s \in Sockets : \E m \in FieldMessages : Message(s, m)
    \/ Idle /\ \E s \in Sockets : ClientClosing(s)
    \/ Idle /\ \E s \in Sockets : SocketClose(s)

\* A client sends a message whose path is not the path of a field.
BadMessage == Idle /\ \E s \in Sockets : \E m \in BadMessages : Message(s, m)

Next == Host \/ Handlers \/ BadMessage \/ Return

Spec == Init /\ [][Next]_vars

\* The same panel when every message a client sends addresses a field.
NextEdits == Host \/ Handlers \/ Return

SpecEdits == Init /\ [][NextEdits]_vars

\* new ConfigPanel(...).load(): the composite load on the constructed panel,
\* for every environment, file and command line, followed by reads.
NextLoad ==
    \/ /\ last.op = "new"
       /\ \E e \in Envs : \E j \in JsonFiles : \E a \in Argvs : Load(e, j, a)
    \/ Idle /\ GetValues
    \/ Return

SpecLoad == Init /\ [][NextLoad]_vars

\* The host alone: loaders, reads, writes, and references it keeps to the
\* category containers.
RefHandlers ==
    \/ Idle /\ \E c \in CatSet : TakeRef(c)
    \/ Idle /\ \E o \in ObjIds : DropRef(o)

NextRefs == Host \/ RefHandlers \/ Return

SpecRefs == Init /\ [][NextRefs]_vars

\* The life of a panel: the interface is started with or without stayOpen,
\* clients come and go, sockets fail, the ping interval ticks, the host
\* edits one field, waits for the close and closes the panel, in any order.
LifeValues == {Str("42"), Str("-1")}

Life ==
    \/ Idle /\ OnError
    \/ Idle /\ \E stay \in BOOLEAN : StartInterface(stay)
    \/ Idle /\ Listening
    \/ Idle /\ \E s \in Sockets : Connect(s)
    \/ Idle /\ \E s \in Sockets : SocketError(s)
    \/ Idle /\ \E s \in Sockets : ClientClosing(s)
    \/ Idle /\ \E s \in Sockets : SocketClose(s)
    \/ Idle /\ \E s \in Sockets : Pong(s)
    \/ Idle /\ PingTick
    \/ Idle /\ \E given \in {Undefined, Str("done")} : ClosePanel(given)
    \/ Idle /\ WaitForClose
    \/ Idle /\ \E v \in LifeValues : SetRaw("fish", "count", v)

NextLife == Life \/ Return

SpecLife == Init /\ [][NextLife]_vars

\* Clients whose edits arrive back to back, on one socket or on two, before
\* the callbacks of the earlier ones have run.
QueueEdits ==
    { EditMsg(<<"fish", "count">>, Str("42")), EditMsg(<<"pond", "kind">>, Str("0")),
      EditMsg(<<"fish", "kind">>, Str("Herring")) }

NextQueue ==
    \/ Idle /\ OnError
    \/ Idle /\ StartInterface(TRUE)
    \/ Idle /\ Listening
    \/ Idle /\ \E s \in Sockets : Connect(s)
    \/ Idle /\ \E s \in Sockets : \E m \in QueueEdits : Arrive(s, m)
    \/ Idle /\ Dispatch
    \/ Idle /\ \E n \in 1..MaxEdits : Step(n)
    \/ Return

SpecQueue == Init /\ [][NextQueue]_vars

\* Saving and loading: panels whose fish.count has no default, a number or
\* NaN as its default; the host loads the environment, sets fields, saves,
\* and loads the file into the same panel or into a fresh one.
SavedDefaults == {Undefined, Num(42), NaN}

InitSave ==
    \E n \in SavedDefaults :
        Construct([c \in CatSet |->
                     [f \in KeySet(c) |->
                        IF <<c, f>> = <<"fish", "count">> THEN n
                        ELSE configMap[c][f].default]])

NextSave ==
    \/ Idle /\ \E e \in LiveEnvs : FromEnvironment(e)
    \/ Idle /\ \E p \in PathSet : \E v \in EditValues(p) : SetRaw(p[1], p[2], v)
    \/ (Idle \/ (last.op = "setRaw" /\ last.written)) /\ ToJSON
    \/ last.op = "toJSON" /\ FromSavedJSON
    \/ last.op = "toJSON" /\ FreshFromJSON
    \/ (Idle \/ last.op = "fromJSON") /\ GetValues
    \/ Return

SpecSave == InitSave /\ [][NextSave]_vars

\* A client that sends an accepted edit once more, right after the first.
Repeat ==
    /\ last.op = "message"
    /\ last.written
    /\ \E s \in Sockets : Message(s, EditMsg(last.path, last.value))

NextTwice ==
    \/ Idle /\ OnError
    \/ Idle /\ StartInterface(TRUE)
    \/ Idle /\ Listening
    \/ Idle /\ \E s \in Sockets : Connect(s)
    \/ Idle /\ \E e \in LiveEnvs : FromEnvironment(e)
    \/ Idle /\ \E s \in Sockets : \E m \in FieldMessages : Message(s, m)
    \/ Repeat
    \/ Return

SpecTwice == Init /\ [][NextTwice]_vars

\* A host that calls setRaw and set with names the schema declares and with
\* names it does not: an unknown category, an unknown field, and a field
\* name every object inherits.
HostPaths == PathSet \cup {<<"lake", "kind">>, <<"fish", "size">>, <<"fish", "constructor">>}

NextPaths ==
    \/ Idle /\ \E p \in HostPaths : \E v \in EditValues(p) : SetRaw(p[1], p[2], v)
    \/ Idle /\ \E p \in HostPaths : \E v \in TypedValues(p) : Set(p[1], p[2], v)
    \/ Idle /\ GetValues
    \/ Return

SpecPaths == Init /\ [][NextPaths]_vars

\* A host that shows html and text above the categories and enables and
\* disables elements, before and while clients are connected, between reads
\* and writes.
NextDisplay ==
    \/ Idle /\ StartInterface(TRUE)
    \/ Idle /\ Listening
    \/ Idle /\ \E s \in Sockets : Connect(s)
    \/ Idle /\ \E c \in CatSet : \E h \in {"", "<b>"} : SendHTML(c, h)
    \/ Idle /\ \E c \in CatSet : \E t \in {"hi", "<b>"} : SendText(c, t)
    \/ Idle /\ \E p \in PathSet : \E b \in BOOLEAN : ToggleElement(p[1], p[2], b)
    \/ Idle /\ \E v \in LifeValues : SetRaw("fish", "count", v)
    \/ Idle /\ GetValues
    \/ Return

SpecDisplay == Init /\ [][NextDisplay]_vars

\* A host that repairs what a failed read reported: files are loaded, the
\* host reads, catches the error of a failed read and writes fields; clients
\* of a started interface edit fields.
EditMessages == UNION {{EditMsg(p, v) : v \in EditValues(p)} : p \in PathSet}

NextRepair ==
    \/ Idle /\ \E j \in LiveJsonFiles : FromJSON(j)
    \/ Idle /\ CatchValues
    \/ Idle /\ GetValues
    \/ Idle /\ \E p \in PathSet : \E v \in EditValues(p) : SetRaw(p[1], p[2], v)
    \/ Idle /\ \E p \in PathSet : \E v \in TypedValues(p) : Set(p[1], p[2], v)
    \/ Idle /\ OnError
    \/ Idle /\ StartInterface(TRUE)
    \/ Idle /\ Listening
    \/ Idle /\ \E s \in Sockets : Connect(s)
    \/ Idle /\ \E s \in Sockets : \E m \in EditMessages : Message(s, m)
    \/ Return

SpecRepair == Init /\ [][NextRepair]_vars

\* A panel that is closed and whose interface is started, before or after the
\* close, with clients that connect, edit fish.count and leave.
NextAfterClose ==
    \/ Idle /\ \E given \in {Undefined} : ClosePanel(given)
    \/ Idle /\ \E stay \in BOOLEAN : StartInterface(stay)
    \/ Idle /\ Listening
    \/ Idle /\ \E s \in Sockets : Connect(s)
    \/ Idle /\ \E s \in Sockets : \E v \in LifeValues :
                   Message(s, EditMsg(<<"fish", "count">>, v))
    \/ Idle /\ \E s \in Sockets : SocketClose(s)
    \/ Idle /\ PingTick
    \/ Return

SpecAfterClose == Init /\ [][NextAfterClose]_vars

----------------------------------------------------------------------------
(* Properties.                                                             *)


IsEmit(e) == e.kind = "emit"
IsSend(e) == e.kind = "send"
Emits(o) == SelectSeq(o, IsEmit)
Sends(o) == SelectSeq(o, IsSend)

TypeAt(p) == configMap[p[1]][p[2]].type

\* The raw value a write hands to setRawValue: set() formats its argument.
WrittenRaw(call) == IF call.op = "set" THEN Str(ToStr(call.value)) ELSE call.value

\* A validated write (setRaw, set or an inbound edit) of a field of the schema.
IsWrite(call) == call.op \in {"setRaw", "set", "message"} /\ call.path \in PathSet
Rejected(call) == IsWrite(call) /\ ~Parse(TypeAt(call.path), WrittenRaw(call)).ok
Accepted(call) == IsWrite(call) /\ Parse(TypeAt(call.path), WrittenRaw(call)).ok

\* C1: a validated write whose raw value the field's type rejects leaves the raw
\* store, the value cache and the dirty flag as they were and fails with an
\* error that names the path.
C1_RejectedWriteChangesNothing ==
    [][Rejected(last') =>
          /\ rawInputMap' = rawInputMap
          /\ heap' = heap
          /\ isValueMapDirty' = isValueMapDirty
          /\ last'.threw /\ ~last'.written
          /\ last'.err.name = "Error"
          /\ last'.err.message =
                 "Invalid value for " \o JoinDot(last'.path) \o ": "
                 \o Parse(TypeAt(last'.path), WrittenRaw(last')).message
                 \o " (" \o ToStr(WrittenRaw(last')) \o ")"]_vars

\* Herring is rejected after Salmon was accepted and read: the cache still
\* holds Salmon.
C1_Witness ==
    /\ Rejected(last)
    /\ last.path = <<"fish", "kind">>
    /\ last.value = Str("Herring")
    /\ ~isValueMapDirty
    /\ rawInputMap["fish"]["kind"] = Str("Salmon")
    /\ Cached(heap, <<"fish", "kind">>) = Str("Salmon")


FieldValid(raw, p) == Parse(TypeAt(p), raw[p[1]][p[2]]).ok
InvalidFields(raw) == {p \in PathSet : ~FieldValid(raw, p)}

EnvSupplies(src, p) == envKey(p) \in DOMAIN src.env
FileSupplies(src, p) ==
    /\ src.file.exists
    /\ p[1] \in DOMAIN src.file.obj
    /\ p[2] \in DOMAIN src.file.obj[p[1]]
ArgSupplies(src, p) == HasArg(p) /\ configMap[p[1]][p[2]].argName \in DOMAIN src.argv

LastSupplied(src, p) ==
    IF ArgSupplies(src, p) THEN Str(src.argv[configMap[p[1]][p[2]].argName])
    ELSE IF FileSupplies(src, p) THEN src.file.obj[p[1]][p[2]]
    ELSE IF EnvSupplies(src, p) THEN Str(src.env[envKey(p)])
    ELSE DefaultRaw(p)

\* C3: after load() every field's raw value is the value of the last source, in
\* the order environment, file, command line, that supplied one for the field,
\* and a field no source supplied keeps its default.
C3_LoadPrecedence ==
    (last.op = "load" /\ ~last.threw) =>
        \A p \in PathSet : rawInputMap[p[1]][p[2]] = LastSupplied(last.src, p)

\* C4: an accepted inbound edit of [c, f] emits the category event under the
\* key 'change.c' with {path, value}.
C4_CategoryEventKey ==
    (last.op = "message" /\ last.written) =>
        \E i \in 1..Len(out) :
            out[i] = Emit("change." \o last.path[1], last.path, last.parsed)

\* The three scoped events of an accepted edit, as the code keys them.
ChangeEvents(call) ==
    << Emit("change", call.path, call.parsed),
       Emit(getChangeKey(call.path[1], Undefined), call.path, call.parsed),
       Emit(getChangeKey(call.path[1], Str(call.path[2])), <<>>, call.parsed) >>

\* C5 as stated: every accepted inbound edit emits exactly four events, in the
\* order change, category event, field event, 'values' with the value tree.
C5_FourEvents ==
    (last.op = "message" /\ last.written) =>
        Emits(out) = ChangeEvents(last) \o <<EmitValues(Tree(heap))>>

\* C5: every accepted inbound edit emits first change, the category event and
\* the field event, in this order; when the read of all values succeeds the
\* 'values' event with the current value tree follows as the fourth and last
\* event, and when that read fails because a field is invalid no 'values'
\* event is emitted.
C5_ThreeEventsThenValues ==
    (last.op = "message" /\ last.written) =>
        LET em == Emits(out) IN
        /\ Len(em) >= 3
        /\ SubSeq(em, 1, 3) = ChangeEvents(last)
        /\ IF InvalidFields(rawInputMap) = {}
           THEN em = ChangeEvents(last) \o <<EmitValues(Tree(heap))>>
           ELSE \A i \in 1..Len(em) : em[i].key # "values"

\* An accepted edit whose read succeeded: four events ending with 'values'
\* whose tree shows the new value.
C5_Witness ==
    /\ last.op = "message" /\ last.written
    /\ last.path = <<"pond", "kind">>
    /\ Len(Emits(out)) = 4
    /\ Emits(out)[4].key = "values"
    /\ Emits(out)[4].tree["pond"]["kind"] = Bool(FALSE)


IsErrorReply(e) ==
    \/ e.kind = "send" /\ e.key = "error"
    \/ e.kind = "emit" /\ e.key = "invalid_change"

\* C6: an inbound edit whose value fails validation is answered with
\* {id, error} carrying the message's id and one 'invalid_change' event with
\* {path, rawValue, error}, and with nothing else: no change event, no
\* 'values' event, no {ok}; and whenever {id, error} or 'invalid_change' is
\* produced for an edit, the raw store is as it was before the message.
C6_RejectedEditReported ==
    [][(last'.op = "message" /\ last'.path \in PathSet) =>
          /\ Rejected(last') =>
                /\ Len(out') = 2
                /\ out'[1].kind = "send" /\ out'[1].key = "error"
                /\ out'[1].id = last'.id
                /\ out'[2] = EmitInvalid(last'.path, last'.value, last'.err)
          /\ (\E i \in 1..Len(out') : IsErrorReply(out'[i])) =>
                rawInputMap' = rawInputMap]_vars

\* C7: an accepted inbound edit with id i is acknowledged with {ok: i} to
\* every open client, and {ok: i} is the last thing the edit produces: its
\* change, category and field events and what its read of all values emits
\* come before it.
C7_AcceptedEditAcknowledged ==
    (last.op = "message" /\ Accepted(last)) =>
        /\ Len(out) > 0
        /\ out[Len(out)] = sendWss(clients, "ok", last.id, NoError)
        /\ \A i \in 1..(Len(out) - 1) : out[i].kind # "send"
        /\ Len(Emits(out)) >= 3
        /\ SubSeq(Emits(out), 1, 3) = ChangeEvents(last)

\* C8: a valid inbound edit whose read of all values fails because another
\* field is invalid stays applied, the failure is emitted as 'error', the edit
\* is acknowledged with {ok: id}, and neither {id, error} nor 'invalid_change'
\* is produced, with or without an 'error' listener.
C8_ReadFailureRedirected ==
    (/\ last.op = "message" /\ Accepted(last)
     /\ isValueMapDirty
     /\ InvalidFields(rawInputMap) \ {last.path} # {}) =>
        /\ rawInputMap[last.path[1]][last.path[2]] = last.value
        /\ \E i \in 1..Len(out) : out[i].kind = "emit" /\ out[i].key = "error"
        /\ out[Len(out)] = sendWss(clients, "ok", last.id, NoError)
        /\ \A i \in 1..Len(out) : ~IsErrorReply(out[i])

\* C9: a read while the cache is dirty and some raw value is invalid fails
\* with one error holding one issue per invalid field, and changes neither
\* store nor the dirty flag; the dirty flag goes from set to clear only in a
\* step whose read succeeded.
C9_AggregateFailureKeepsDirty ==
    [][/\ (last'.op = "values" /\ isValueMapDirty /\ InvalidFields(rawInputMap) # {}) =>
             /\ last'.threw
             /\ {last'.err.issues[i].path : i \in 1..Len(last'.err.issues)}
                    = InvalidFields(rawInputMap)
             /\ Len(last'.err.issues) = Cardinality(InvalidFields(rawInputMap))
             /\ isValueMapDirty'
             /\ heap' = heap
             /\ rawInputMap' = rawInputMap
       /\ (isValueMapDirty /\ ~isValueMapDirty') =>
             /\ \/ last'.op = "values" /\ ~last'.threw
                \/ /\ last'.op = "message" /\ last'.written
                   /\ \E i \in 1..Len(out') : out'[i].key = "values"
             /\ InvalidFields(rawInputMap') = {}]_vars

\* A failed read that reports two invalid fields at once.
C9_Witness ==
    /\ last.op = "values" /\ last.threw
    /\ isValueMapDirty
    /\ Len(last.err.issues) >= 2
    /\ Cardinality(InvalidFields(rawInputMap)) >= 2

\* C10: a successful set/setRaw of a field writes in place: the value tree
\* and the category container keep their identity, so a container the host
\* took from the accessor earlier shows the new parsed value.
C10_WriteInPlace ==
    [][(last'.op \in {"set", "setRaw"} /\ last'.path \in PathSet /\ ~last'.threw) =>
          LET c == last'.path[1]
              f == last'.path[2]
          IN  /\ heap'[Root] = heap[Root]
              /\ hostRefs' = hostRefs
              /\ heap'[heap[Root][c]][f] = Parse(TypeAt(last'.path), WrittenRaw(last')).value
              /\ \A o \in ObjIds \ {Root, heap[Root][c]} : heap'[o] = heap[o]
              /\ \A g \in KeySet(c) \ {f} : heap'[heap[Root][c]][g] = heap[heap[Root][c]][g]]_vars

\* The host holds the container of fish, then sets fish.count to the number
\* 42: the container it holds shows 42.
C10_Witness ==
    /\ last.op = "set" /\ ~last.threw
    /\ last.path = <<"fish", "count">>
    /\ heap[Root]["fish"] \in hostRefs
    /\ \E o \in hostRefs : heap[o] # NoObject /\ heap[o]["count"] = Num(42)


----------------------------------------------------------------------------
(* Construction: the schema's explicit defaults vary, and the panel is     *)
(* read before anything is loaded or written.                              *)

\* The `default` a definition of the field can carry: none, a raw value its
\* type accepts (as text, or for the number already typed), one it rejects.
DefaultChoices(p) ==
    CASE p = <<"fish", "kind">> -> {Undefined, Str("Salmon"), Str("Herring")}
      [] p = <<"fish", "count">> -> {Undefined, Str("42"), Num(42), Str("-1")}
      [] OTHER -> {Undefined, Str("true"), Str("0"), Str("maybe")}

InitNew ==
    \E k \in DefaultChoices(<<"fish", "kind">>) :
    \E n \in DefaultChoices(<<"fish", "count">>) :
    \E b \in DefaultChoices(<<"pond", "kind">>) :
        Construct([c \in CatSet |->
                     IF c = "fish" THEN [f \in KeySet(c) |-> IF f = "kind" THEN k ELSE n]
                     ELSE [f \in KeySet(c) |-> b]])

NextNew ==
    \/ last.op \in {"new", "idle"} /\ GetValues
    \/ Return

SpecNew == InitNew /\ [][NextNew]_vars

\* The default a field is configured with: the definition's explicit default
\* if one is given, otherwise the default of the type.
ConfiguredDefault(p) ==
    IF defaults[p[1]][p[2]] # Undefined THEN defaults[p[1]][p[2]]
    ELSE TypeAt(p).defaultValue

----------------------------------------------------------------------------
(* Loaders.                                                                *)

IsLoader(call) == call.op \in {"fromEnvironment", "fromJSON", "fromArgs", "load"}

\* C12: a loader call that supplies values never validates them: it does not
\* fail, whatever the values, and it leaves the cache marked dirty, so that an
\* invalid loaded value is reported by the next read only.
C12_LoadersNeverValidate ==
    IsLoader(last) => (~last.threw /\ isValueMapDirty)


----------------------------------------------------------------------------
(* The life cycle of the panel.                                            *)

\* this.isRunning
isRunning == ~aborted

\* C13: a socket error on one client connection terminates that connection
\* only and is emitted as an 'error' event; it is not fatal: no exception
\* escapes the handler, the panel keeps running, no 'exit' is emitted and the
\* other clients stay as they were.
C13_SocketErrorNotFatal ==
    [][last'.op = "socketError" =>
          /\ ~last'.threw
          /\ Emits(out') = <<EmitError(SocketErr)>>
          /\ clients'[last'.sock] = "closing"
          /\ \A s \in Sockets \ {last'.sock} : clients'[s] = clients[s]
          /\ isRunning']_vars


\* C14: once the panel is closed isRunning is false in every later state,
\* whatever the host and the clients do, and a closePanel on a closed panel
\* changes nothing, cleans nothing up and emits nothing.
C14_CloseIdempotentTerminal ==
    [][/\ ~isRunning => ~isRunning'
       /\ (~isRunning /\ last'.op = "closePanel") =>
             /\ out' = <<>>
             /\ UNCHANGED <<StoreVars, Channel, errorListener, hostRefs, defaults, caught, loop,
                            displayMap>>]_vars

\* A second closePanel, on a panel whose interface was started after the
\* first one: it is still not running, and nothing was emitted.
C14_Witness ==
    /\ last.op = "closePanel"
    /\ out = <<>>
    /\ ~isRunning
    /\ server = "listening"
    /\ \E s \in Sockets : clients[s] = "open"


IsSettle(e) == e.kind = "settle"
Settles(o) == SelectSeq(o, IsSettle)

\* The value tree in which every field is the parse of its raw value.
ValidatedSnapshot(raw) ==
    [c \in CatSet |-> [f \in KeySet(c) |-> Parse(TypeAt(<<c, f>>), raw[c][f]).value]]

\* C15 as stated: waitForClose on a closed panel settles in the call and
\* yields the validated snapshot; on a panel not yet closed it stays pending
\* as long as the panel is not closed.
C15_SettlesWithSnapshot ==
    [][/\ (last'.op = "waitForClose" /\ ~isRunning) =>
             /\ Len(out') = 1
             /\ out'[1].kind = "settle" /\ out'[1].key = "resolve"
             /\ out'[1].tree = ValidatedSnapshot(rawInputMap')
       /\ (last'.op = "waitForClose" /\ isRunning) => (out' = <<>> /\ waiters' = waiters + 1)
       /\ isRunning' => (waiters' >= waiters /\ Settles(out') = <<>>)]_vars

\* C15: waitForClose on a closed panel settles in the call, without waiting
\* for any further event: it yields the validated snapshot when every field's
\* raw value is valid and fails with the ZodError of the read when a field is
\* invalid; on a panel not yet closed it stays pending as long as the panel
\* is not closed.
C15_SettlesAtOnceWhenClosed ==
    [][/\ (last'.op = "waitForClose" /\ ~isRunning) =>
             /\ Len(out') = 1
             /\ out'[1].kind = "settle"
             /\ waiters' = waiters
             /\ IF InvalidFields(rawInputMap') = {}
                THEN /\ out'[1].key = "resolve"
                     /\ out'[1].tree = ValidatedSnapshot(rawInputMap')
                ELSE /\ out'[1].key = "reject"
                     /\ out'[1].err.name = "ZodError"
                     /\ last'.threw
       /\ (last'.op = "waitForClose" /\ isRunning) => (out' = <<>> /\ waiters' = waiters + 1)
       /\ isRunning' => (waiters' >= waiters /\ Settles(out') = <<>>)]_vars

\* waitForClose on a closed panel whose fish.count was set to 42 resolved with
\* the snapshot.
C15_Witness ==
    /\ last.op = "waitForClose"
    /\ ~isRunning
    /\ Len(out) = 1
    /\ out[1].key = "resolve"
    /\ out[1].tree["fish"]["count"] = Num(42)


\* C16: in every state after the panel was closed no ping interval of the
\* panel is active, whatever the order of startInterface and closePanel.
C16_NoTimerAfterClose == ~isRunning => wssPing # "active"


----------------------------------------------------------------------------
(* Edits that arrive back to back.                                         *)

\* The positions of the log at which edit n acted.
LogOf(n) == {i \in DOMAIN loop.log : loop.log[i].edit = n}
Running == {n \in DOMAIN loop.running : loop.running[n] # <<>>}

\* C17: edits that arrive back to back are handled one after the other, each
\* to completion: at most one handler has begun and not finished, what one
\* edit wrote, emitted and sent is contiguous in what an observer sees, with
\* nothing of another edit in between, and within an accepted edit the write
\* comes first and the acknowledgement last.
C17_EditsDoNotInterleave ==
    /\ Cardinality(Running) <= 1
    /\ \A n \in 1..MaxEdits : \A i, k \in LogOf(n) : \A j \in i..k : j \in LogOf(n)
    /\ \A i \in DOMAIN loop.log :
          LET x == loop.log[i] IN
          /\ x.e.kind = "write" => \A j \in LogOf(x.edit) : j >= i
          /\ (x.e.kind = "send" /\ x.e.key = "ok") => \A j \in LogOf(x.edit) : j <= i

\* Two accepted edits of different fields, both received before the first was
\* handled, both handled to the end.
C17_Witness ==
    /\ Running = {}
    /\ loop.inbox = <<>>
    /\ \E i, k \in DOMAIN loop.log :
          /\ loop.log[i].e.kind = "write" /\ loop.log[i].edit = 1
          /\ loop.log[k].e.kind = "write" /\ loop.log[k].edit = 2
          /\ loop.log[i].e.path # loop.log[k].e.path
    /\ \A n \in 1..2 : \E i \in LogOf(n) : loop.log[i].e.key = "ok"


----------------------------------------------------------------------------
(* The replay of a new connection.                                         *)

\* The fields a sequence of sends reports an error for, by element id.
ErrorIds(o) == {Sends(o)[i].id : i \in {j \in DOMAIN Sends(o) : Sends(o)[j].key = "error"}}

\* C18: when a client connects, one error message {id, error} with the
\* element id of the field is sent, to the new client among the open ones,
\* for every field whose current raw value its type rejects and for no other
\* field; the replay leaves the raw store, the value cache and the dirty flag
\* as they were.
C18_ReplayReportsInvalidFields ==
    [][last'.op = "connection" =>
          /\ ErrorIds(out') = {pathToElementId(p) : p \in InvalidFields(rawInputMap)}
          /\ Len(Sends(out')) = Cardinality(InvalidFields(rawInputMap))
          /\ \A i \in DOMAIN out' :
                IsSend(out'[i]) => (out'[i].key = "error" /\ last'.sock \in out'[i].to)
          /\ UNCHANGED StoreVars]_vars

\* A client connects while fish.count and pond.kind are invalid and fish.kind
\* is valid: two errors are sent.
C18_Witness ==
    /\ last.op = "connection"
    /\ InvalidFields(rawInputMap) = {<<"fish", "count">>, <<"pond", "kind">>}
    /\ ErrorIds(out) = {pathToElementId(<<"fish", "count">>), pathToElementId(<<"pond", "kind">>)}


----------------------------------------------------------------------------
(* Saving and loading.                                                     *)

\* C19: the file toJSON writes, loaded with fromJSON into a fresh panel of
\* the same schema, gives a raw value tree identical to that of the saving
\* panel; and on one panel, after an accepted setRaw, toJSON and fromJSON of
\* that file, a read that succeeds returns the value that was set.
C19_SaveLoadRoundTrip ==
    [][/\ last'.op = "freshFromJSON" => rawInputMap' = rawInputMap
       /\ (last.op = "fromJSON" /\ last.written /\ last'.op = "values" /\ ~last'.threw) =>
             Cached(heap', last.path) = last.parsed]_vars


----------------------------------------------------------------------------
(* The same edit twice.                                                    *)

IsInteract(e) == e.kind = "call" /\ e.key = "onInteract"

\* What one accepted edit has to produce: the acknowledgement {ok: id}, the
\* three change events first among its events, and one call of the field's
\* onInteract when it has one.
FullSequence(call, o, cl) ==
    /\ Sends(o) = <<sendWss(cl, "ok", call.id, NoError)>>
    /\ Len(Emits(o)) >= 3
    /\ SubSeq(Emits(o), 1, 3) = ChangeEvents(call)
    /\ Len(SelectSeq(o, IsInteract)) =
           IF configMap[call.path[1]][call.path[2]].onInteract THEN 1 ELSE 0

\* C20: an accepted edit sent a second time right after the first leaves the
\* raw store, the value cache and the dirty flag as the first left them, and
\* each of the two produces its own acknowledgement {ok: id}, its own event
\* sequence and one call of the field's onInteract.
C20_SameEditTwice ==
    [][(/\ last.op = "message" /\ last.written
        /\ last'.op = "message" /\ last'.path = last.path /\ last'.value = last.value) =>
          /\ UNCHANGED StoreVars
          /\ FullSequence(last, out, clients)
          /\ FullSequence(last', out', clients)]_vars


----------------------------------------------------------------------------
(* Paths that are not the path of a field.                                 *)

\* C21: an inbound message whose path is not the path [category, field] of a
\* field of the schema is answered without an exception escaping the handler
\* and leaves the raw store, the value cache and the dirty flag unchanged.
C21_UnresolvedPathChangesNothing ==
    [][(last'.op = "message" /\ last'.path \notin PathSet /\ last'.path # <<>>) =>
          /\ UNCHANGED StoreVars
          /\ ~last'.written]_vars


\* C22: setRaw and set called with a category or a field the schema does not
\* declare fail with the invalid-path error and write nothing: the raw
\* store, the value cache and the dirty flag are unchanged.
C22_UnknownPathRejected ==
    [][(last'.op \in {"setRaw", "set"} /\ last'.path \notin PathSet) =>
          /\ last'.threw
          /\ last'.err = MkError("Error", "Invalid config path: " \o JoinDot(last'.path))
          /\ UNCHANGED StoreVars]_vars


----------------------------------------------------------------------------
(* The liveness ping.                                                      *)

Pinged(o, s) == \E i \in DOMAIN o : o[i] = Ping(s)

\* C23: a client's alive mark is cleared only by a tick that pings it and is
\* set again by its pong; at a tick of a running panel an open client whose
\* mark is still cleared, which has not answered the last ping, is
\* terminated, and an open client whose mark is set stays connected and is
\* pinged again. A client that answers every ping is therefore never
\* disconnected by the ping loop, and a silent one survives one cycle.
C23_SilentClientDisconnected ==
    [][/\ \A s \in Sockets :
             (clients[s] = "open" /\ isAlive[s] /\ ~isAlive'[s] /\ clients'[s] = "open") =>
                 (last'.op = "pingTick" /\ Pinged(out', s))
       /\ last'.op = "pong" => isAlive'[last'.sock]
       /\ (last'.op = "pingTick" /\ isRunning) =>
             \A s \in Sockets :
                 clients[s] = "open" =>
                     IF isAlive[s]
                     THEN clients'[s] = "open" /\ Pinged(out', s)
                     ELSE clients'[s] = "closing" /\ ~Pinged(out', s)]_vars

\* A tick of a running panel with two open clients, one that answered the
\* last ping and one that did not: the first is pinged again, the second is
\* terminated.
C23_Witness ==
    /\ last.op = "pingTick"
    /\ isRunning
    /\ clients[1] = "open" /\ clients[2] = "closing"
    /\ out = <<Ping(1)>>
    /\ stayOpen


----------------------------------------------------------------------------
(* The side channel.                                                       *)

\* C24: sendHTML, sendText and toggleElement broadcast their payload, {html,
\* cat} or {enable, id}, to the open clients and nothing else: they never
\* throw, they leave the raw store, the value cache and the dirty flag as
\* they were, and they emit no event and call no callback.
C24_SideChannelOnlyBroadcasts ==
    [][last'.op \in {"sendHTML", "sendText", "toggleElement"} =>
          /\ UNCHANGED StoreVars
          /\ ~last'.threw
          /\ Len(out') = 1
          /\ IsSend(out'[1])
          /\ out'[1].to = OpenClients(clients)
          /\ IF last'.op = "toggleElement"
             THEN /\ out'[1].key = "enable"
                  /\ out'[1].value = last'.value
                  /\ out'[1].id = pathToElementId(last'.path)
             ELSE /\ out'[1].key = "html"
                  /\ out'[1].path = last'.path
                  /\ out'[1].value =
                        IF last'.op = "sendText" THEN Str(escapeHtml(last'.value.s))
                        ELSE last'.value]_vars

\* Text with markup is sent to a connected client while the cache is clean
\* and fish.count is 42: the escaped text is broadcast.
C24_Witness ==
    /\ last.op = "sendText"
    /\ out[1].value = Str("&#60;b&#62;")
    /\ out[1].to # {}
    /\ ~isValueMapDirty
    /\ Cached(heap, <<"fish", "count">>) = Num(42)


----------------------------------------------------------------------------
(* Closing by a client, and the exit event.                                *)

\* C25: when a client's connection closes and stayOpen is false or was not
\* given, closePanel('panel closed by user') is called: the panel is not
\* running afterwards, and if it was running every other client is
\* terminated, the server no longer listens and 'exit' is emitted. When
\* stayOpen is true the panel keeps running as it was, its server listening,
\* the other clients open, and nothing is emitted.
C25_ClientCloseClosesPanel ==
    [][last'.op = "close" =>
          /\ clients'[last'.sock] = "none"
          /\ IF stayOpen
             THEN /\ isRunning' = isRunning
                  /\ server' = server
                  /\ wssPing' = wssPing
                  /\ \A s \in Sockets \ {last'.sock} : clients'[s] = clients[s]
                  /\ out' = <<>>
             ELSE /\ last'.value = Str("panel closed by user")
                  /\ ~isRunning'
                  /\ isRunning =>
                        /\ \A s \in Sockets : clients'[s] # "open"
                        /\ server' # "listening"
                        /\ \E i \in DOMAIN out' : IsEmit(out'[i]) /\ out'[i].key = "exit"]_vars

\* Without stayOpen, one of two open clients has closed its connection: the
\* panel is closed and the other client is terminated.
C25_Witness ==
    /\ last.op = "close"
    /\ ~stayOpen
    /\ ~isRunning
    /\ server = "closed"
    /\ \E s \in Sockets : clients[s] = "closing"
    /\ Len(out) >= 1 /\ out[1].key = "exit"


\* C26: whenever 'exit' is emitted, its payload is the reason string given to
\* closePanel: 'closed manually' when the host gave none, the host's own
\* string when it gave one, 'panel closed by user' when a client's
\* disconnection closed the panel.
C26_ExitCarriesReason ==
    \A i \in DOMAIN out :
        (IsEmit(out[i]) /\ out[i].key = "exit") =>
            /\ last.op \in {"close", "closePanel"}
            /\ last.value.t = "string"
            /\ out[i].value = last.value


----------------------------------------------------------------------------
(* What a single loader leaves alone.                                      *)

\* C27: fromJSON changes the raw value of exactly the fields the file supplies
\* a value for: a supplied field takes the file's value, and a field absent
\* from the file keeps the raw value it had before the call, also when the
\* file supplies other fields of its category.
C27_FromJSONFrame ==
    [][(last'.op = "fromJSON" /\ ~last'.threw) =>
          \A p \in PathSet :
              rawInputMap'[p[1]][p[2]] =
                  IF FileSupplies(last'.src, p) THEN last'.src.file.obj[p[1]][p[2]]
                  ELSE rawInputMap[p[1]][p[2]]]_vars


\* C28: fromArgs changes the raw value of exactly the fields whose argument
\* appears on the command line: such a field takes the argument's value, and a
\* field whose argument was not passed, whether or not it has an argName or an
\* explicit default, keeps the raw value it had before the call.
C28_FromArgsFrame ==
    [][(last'.op = "fromArgs" /\ ~last'.threw) =>
          \A p \in PathSet :
              rawInputMap'[p[1]][p[2]] =
                  IF ArgSupplies(last'.src, p)
                  THEN Str(last'.src.argv[configMap[p[1]][p[2]].argName])
                  ELSE rawInputMap[p[1]][p[2]]]_vars


----------------------------------------------------------------------------
(* The scoped change keys.                                                 *)

\* C29: the change key is a function of the whole path, distinct for distinct
\* fields and for a category and its fields: whatever is emitted under the
\* key getChangeKey gives for the field [c, f] belongs to an accepted edit of
\* that very field, not of a same-named field of another category, and
\* carries the bare value, never a {path, value} payload.
C29_ChangeKeyOfWholePath ==
    \A p \in PathSet : \A i \in DOMAIN out :
        (IsEmit(out[i]) /\ out[i].key = getChangeKey(p[1], Str(p[2]))) =>
            /\ last.path = p
            /\ out[i].path = <<>>


----------------------------------------------------------------------------
(* The value tree across a bulk recompute.                                 *)

\* The containers the value tree holds, and the references of the host that
\* are no longer among them.
Containers(hp) == {hp[Root][c] : c \in CatSet}
StaleRefs == hostRefs \ Containers(heap)

----------------------------------------------------------------------------
(* Repairing an invalid store.                                             *)

\* C31: the host caught the error of a failed read of a dirty cache, and since
\* then every field the error names has been written by a successful
\* set/setRaw or by an edit of a client, with nothing else done to the store.
\* Then the next read succeeds, leaves the dirty flag clear and returns for
\* every written field the value that was written and for every other field
\* the parse of its raw value; when the last repair was an edit of a client,
\* the read its handler makes already succeeded and 'values' was emitted.
C31_RepairedStoreReads ==
    [][/\ (caught.on /\ caught.fields = {} /\ last'.op = "values") =>
             /\ ~last'.threw
             /\ ~isValueMapDirty'
             /\ rawInputMap' = rawInputMap
             /\ \A p \in PathSet :
                   Cached(heap', p) = Parse(TypeAt(p), rawInputMap[p[1]][p[2]]).value
             /\ \A p \in DOMAIN caught.fixed : Cached(heap', p) = caught.fixed[p]
       /\ (caught.on /\ caught.fields # {} /\ caught'.on /\ caught'.fields = {}
           /\ last'.op = "message") =>
             /\ ~last'.threw
             /\ ~isValueMapDirty'
             /\ \A p \in DOMAIN caught'.fixed : Cached(heap', p) = caught'.fixed[p]
             /\ \E i \in DOMAIN out' : IsEmit(out'[i]) /\ out'[i].key = "values"]_vars

\* A read failed for two fields, both were written since, one of them
\* fish.count with 42, and the read that follows has succeeded.
C31_Witness ==
    /\ last.op = "values" /\ ~last.threw
    /\ caught.on /\ caught.fields = {}
    /\ Cardinality(DOMAIN caught.fixed) >= 2
    /\ ~isValueMapDirty
    /\ <<"fish", "count">> \in DOMAIN caught.fixed
    /\ Cached(heap, <<"fish", "count">>) = Num(42)


----------------------------------------------------------------------------
(* The reply to an inbound message.                                        *)

\* C32: a message that carries a path is answered with exactly one broadcast,
\* {ok: id} or {id, error} with the id of the message, and the answer is
\* {ok: id} exactly when the message's value was written to the raw store.
C32_OneReplyOkIffWritten ==
    (last.op = "message" /\ last.path # <<>>) =>
        /\ Len(Sends(out)) = 1
        /\ Sends(out)[1].key \in {"ok", "error"}
        /\ Sends(out)[1].id = last.id
        /\ (Sends(out)[1].key = "ok") <=> last.written


----------------------------------------------------------------------------
(* The exit event.                                                         *)

\* The number of 'exit' events a handler emitted.
Exits(o) == Len(SelectSeq(o, LAMBDA e : IsEmit(e) /\ e.key = "exit"))

\* C33: 'exit' is emitted once per panel: the step in which the panel is
\* closed for the first time emits it exactly once, and no other step emits
\* it, whether it is a further closePanel, the close of a client's connection
\* during or after the shutdown, or anything else.
C33_ExitOnce ==
    [][Exits(out') = IF ~aborted /\ aborted' THEN 1 ELSE 0]_vars

\* Without stayOpen, the connection of a client closes after the panel has
\* been closed: closePanel is called again and nothing is emitted.
C33_Witness ==
    /\ last.op = "close"
    /\ ~stayOpen
    /\ last.value = Str("panel closed by user")
    /\ aborted
    /\ out = <<>>


----------------------------------------------------------------------------
(* Writes of the host.                                                     *)

\* C34: a set/setRaw of the host emits no event, calls no interaction
\* callback and broadcasts nothing, and when it succeeds the raw store holds
\* the raw value and the cache its parse; change events, 'values', calls of
\* an interaction callback and {ok} acknowledgements are produced by inbound
\* messages of clients only.
C34_HostWriteIsSilent ==
    /\ (last.op \in {"set", "setRaw"}) =>
          /\ out = <<>>
          /\ (~last.threw /\ last.path \in PathSet) =>
                /\ rawInputMap[last.path[1]][last.path[2]] = WrittenRaw(last)
                /\ Cached(heap, last.path) = Parse(TypeAt(last.path), WrittenRaw(last)).value
    /\ \A i \in DOMAIN out :
          (\/ IsInteract(out[i])
           \/ IsEmit(out[i]) /\ out[i].key \in {"change", "values"}
           \/ IsEmit(out[i]) /\ \E p \in PathSet :
                 out[i].key \in {getChangeKey(p[1], Undefined), getChangeKey(p[1], Str(p[2]))}
           \/ IsSend(out[i]) /\ out[i].key = "ok")
          => last.op = "message"

\* A client is connected and the host calls setRaw('pond', 'kind', '0') on a
\* field with an interaction callback: the value is stored and nothing is
\* emitted or sent.
C34_Witness ==
    /\ last.op = "setRaw" /\ ~last.threw
    /\ last.path = <<"pond", "kind">>
    /\ configMap["pond"]["kind"].onInteract
    /\ \E s \in Sockets : clients[s] = "open"
    /\ rawInputMap["pond"]["kind"] = Str("0")
    /\ Cached(heap, <<"pond", "kind">>) = Bool(FALSE)
    /\ out = <<>>


----------------------------------------------------------------------------
(* After the close.                                                        *)

\* C35: once the panel has been closed, in every later state no server is
\* listening and no client is connected, and no message of a client changes
\* the raw store, also when startInterface is called after the close.
C35_NoEditAfterClose ==
    [][aborted =>
          /\ server' # "listening"
          /\ \A s \in Sockets : clients'[s] # "open"
          /\ (last'.op = "message") => rawInputMap' = rawInputMap]_vars


----------------------------------------------------------------------------
(* The waiters of a close.                                                 *)

\* C36: the step that closes the panel settles every waitForClose that was
\* pending, however many there are: each resolves with the validated snapshot
\* of the raw store when every field is valid and each is rejected with the
\* ZodError of the read when some field is invalid; in no state of a closed
\* panel is a waitForClose pending.
C36_EveryWaiterSettles ==
    [][/\ (isRunning /\ ~isRunning') =>
             /\ Len(Settles(out')) = waiters
             /\ \A i \in DOMAIN Settles(out') :
                   IF InvalidFields(rawInputMap) = {}
                   THEN /\ Settles(out')[i].key = "resolve"
                        /\ Settles(out')[i].tree = ValidatedSnapshot(rawInputMap)
                   ELSE /\ Settles(out')[i].key = "reject"
                        /\ Settles(out')[i].err.name = "ZodError"
                        /\ {Settles(out')[i].err.issues[j].path :
                               j \in DOMAIN Settles(out')[i].err.issues}
                              = InvalidFields(rawInputMap)
       /\ ~isRunning' => waiters' = 0]_vars

\* Two waitForClose calls were pending when closePanel was called on a panel
\* whose fish.count is 42: both resolved with the snapshot.
C36_Witness ==
    /\ last.op = "closePanel"
    /\ ~isRunning
    /\ waiters = 0
    /\ Len(Settles(out)) >= 2
    /\ \A i \in DOMAIN Settles(out) :
          /\ Settles(out)[i].key = "resolve"
          /\ Settles(out)[i].tree["fish"]["count"] = Num(42)

\* Two waitForClose calls were pending when the panel was closed with
\* fish.count invalid: both were rejected.
C36_WitnessRejected ==
    /\ ~isRunning
    /\ Len(Settles(out)) >= 2
    /\ \A i \in DOMAIN Settles(out) : Settles(out)[i].key = "reject"


----------------------------------------------------------------------------
(* The interaction callback.                                               *)

\* The calls of an interaction callback among what a handler produced.
Interacts(o) == SelectSeq(o, IsInteract)

\* C37: an inbound edit of a field that has an interaction callback calls it
\* exactly once when the field's type accepts the value, with the path and
\* the parsed value, which the raw store and the cache hold by then, and
\* before 'change' and everything else the edit produces; when the type
\* rejects the value the callback is not called.
C37_CallbackOnceWithParsedValue ==
    (/\ last.op = "message" /\ last.path \in PathSet
     /\ configMap[last.path[1]][last.path[2]].onInteract) =>
        IF Accepted(last)
        THEN /\ Len(Interacts(out)) = 1
             /\ out[1] = Interact(last.path, Parse(TypeAt(last.path), last.value).value)
             /\ Len(out) >= 2 /\ IsEmit(out[2]) /\ out[2].key = "change"
             /\ rawInputMap[last.path[1]][last.path[2]] = last.value
             /\ Cached(heap, last.path) = out[1].value
        ELSE Interacts(out) = <<>>

\* A client sets pond.kind, a field with an interaction callback, to '0': the
\* callback was called once, with false, before 'change'.
C37_Witness ==
    /\ last.op = "message"
    /\ last.path = <<"pond", "kind">>
    /\ last.value = Str("0")
    /\ Len(Interacts(out)) = 1
    /\ out[1] = Interact(<<"pond", "kind">>, Bool(FALSE))
    /\ out[2].key = "change"

\* A client sets pond.kind to 'maybe', which the type rejects: the edit is
\* answered with an error and the callback was not called.
C37_WitnessRejected ==
    /\ last.op = "message"
    /\ last.path = <<"pond", "kind">>
    /\ last.value = Str("maybe")
    /\ Interacts(out) = <<>>
    /\ \E i \in DOMAIN out : IsErrorReply(out[i])

====
